---------------------------- MODULE Spec2Model ----------------------------
(***************************************************************************)
(* Verification model of the reaction kernel of src/src/crosssections.cc:  *)
(* cross_sections::generate_collision_list and the routines it calls.      *)
(*                                                                         *)
(* Units.  Energies and masses are integers in MeV.  Cross sections are    *)
(* integers in units of really_small, so "xs > really_small" of the code   *)
(* is "xs > really_small" here with really_small = 1; the value 1 stands   *)
(* for a positive cross section that is not above the threshold.           *)
(*                                                                         *)
(* External collaborators (particle registry, parametrizations, isospin    *)
(* Clebsch-Gordan factors, mass integrals, string provider, random         *)
(* provider) are not part of the sources; they are modelled as read-only   *)
(* tables, as functions of their arguments selected by `profile`, or as    *)
(* inputs drawn where the code asks for them.                              *)
(***************************************************************************)
EXTENDS Integers, Sequences, FiniteSets, TLC

VARIABLES
  t1, t2,          \* incoming_particles_[0].type(), incoming_particles_[1].type()
  sqrt_s,          \* sqrt_s_
  policy,          \* the arguments of generate_collision_list
  profile,         \* which external parametrization tables are in force
  registry,        \* ParticleType::list_all(): the particle types loaded at start-up
  pc,              \* position inside generate_collision_list
  process_list,    \* the CollisionBranchList under construction
  is_pythia,       \* result of decide_string
  subproc,         \* what set_subproc recorded on the string provider
  n_set_subproc,   \* number of set_subproc calls
  draws,           \* the Random::uniform draws consumed so far, as k of k/UDen
  str,             \* the intermediate values of string_excitation
  error,           \* the exception that ended the call, or NoError
  previous,        \* what an earlier call of generate_collision_list returned
  concurrent,      \* a second call that runs at the same time, on another thread
  fpe,             \* the program of tests/enable_float_traps.cc
  standalone       \* a routine called on its own: nn_to_resonance_matrix_element,
                   \* sample_momenta or HadronGasEos::mus_net_strangeness0

\* what a call of generate_collision_list reads and never writes
inputs == <<t1, t2, sqrt_s, policy, profile, registry>>

\* what lies outside one call of generate_collision_list
outside == <<previous, concurrent, fpe, standalone>>

vars == <<inputs, pc, process_list, is_pythia,
          subproc, n_set_subproc, draws, str, error, outside>>

-----------------------------------------------------------------------------
(* Bounds of the model *)

\* resolution of Random::uniform(0,1): the draws are k/UDen, k in 0..UDen-1
UDen == 4
\* largest partial cross section the string provider answers
MaxDiffr == 1
\* number of external parametrization tables tried
NProfiles == 2

-----------------------------------------------------------------------------
(* Particle registry (external): PDG codes and per-type queries *)

pdg == [p |-> 2212, n |-> 2112, Lambda |-> 3122,
        Sigma_p |-> 3222, Sigma_z |-> 3212, Sigma_m |-> 3112,
        Delta_pp |-> 2224, Delta_p |-> 2214, Delta_z |-> 2114, Delta_m |-> 1114,
        Nstar1535_p |-> 22212, Nstar1535_z |-> 22112,
        pi_p |-> 211, pi_z |-> 111, pi_m |-> -211,
        K_p |-> 321, K_z |-> 311, Kbar_z |-> -311, K_m |-> -321,
        rho_z |-> 113, h1 |-> 10223,
        decimal_d |-> 1000010020, decimal_antid |-> -1000010020,
        dprime |-> 1000010021]

Abs(x) == IF x < 0 THEN -x ELSE x
Max(x, y) == IF x >= y THEN x ELSE y

\* types that are their own antiparticle
SelfConjugate == {pdg.pi_z, pdg.rho_z, pdg.h1}

\* the codes listed with a positive sign in the registry
BaseCodes == {pdg.p, pdg.n, pdg.Lambda, pdg.Sigma_p, pdg.Sigma_z, pdg.Sigma_m,
              pdg.Delta_pp, pdg.Delta_p, pdg.Delta_z, pdg.Delta_m,
              pdg.Nstar1535_p, pdg.Nstar1535_z,
              pdg.pi_p, pdg.pi_z, pdg.K_p, pdg.K_z, pdg.rho_z, pdg.h1,
              pdg.decimal_d, pdg.dprime}

\* ParticleType::list_all()
list_all == BaseCodes \cup {-c : c \in BaseCodes \ SelfConjugate}

\* per-type data of the positive codes:
\* Q charge, B baryon number, S strangeness, I2 = 2I, I3 = 2 I_3, J2 = 2J,
\* m pole mass, mk min_mass_kinematic, ms min_mass_spectral, w width_at_pole
BaseData == [c \in BaseCodes |->
  CASE c = pdg.p           -> [Q |-> 1,  B |-> 1, S |-> 0,  I2 |-> 1, I3 |-> 1,  J2 |-> 1, m |-> 938,  mk |-> 938,  ms |-> 938,  w |-> 0]
    [] c = pdg.n           -> [Q |-> 0,  B |-> 1, S |-> 0,  I2 |-> 1, I3 |-> -1, J2 |-> 1, m |-> 938,  mk |-> 938,  ms |-> 938,  w |-> 0]
    [] c = pdg.Lambda      -> [Q |-> 0,  B |-> 1, S |-> -1, I2 |-> 0, I3 |-> 0,  J2 |-> 1, m |-> 1116, mk |-> 1116, ms |-> 1116, w |-> 0]
    [] c = pdg.Sigma_p     -> [Q |-> 1,  B |-> 1, S |-> -1, I2 |-> 2, I3 |-> 2,  J2 |-> 1, m |-> 1189, mk |-> 1189, ms |-> 1189, w |-> 0]
    [] c = pdg.Sigma_z     -> [Q |-> 0,  B |-> 1, S |-> -1, I2 |-> 2, I3 |-> 0,  J2 |-> 1, m |-> 1189, mk |-> 1189, ms |-> 1189, w |-> 0]
    [] c = pdg.Sigma_m     -> [Q |-> -1, B |-> 1, S |-> -1, I2 |-> 2, I3 |-> -2, J2 |-> 1, m |-> 1189, mk |-> 1189, ms |-> 1189, w |-> 0]
    [] c = pdg.Delta_pp    -> [Q |-> 2,  B |-> 1, S |-> 0,  I2 |-> 3, I3 |-> 3,  J2 |-> 3, m |-> 1232, mk |-> 1076, ms |-> 1076, w |-> 117]
    [] c = pdg.Delta_p     -> [Q |-> 1,  B |-> 1, S |-> 0,  I2 |-> 3, I3 |-> 1,  J2 |-> 3, m |-> 1232, mk |-> 1076, ms |-> 1076, w |-> 117]
    [] c = pdg.Delta_z     -> [Q |-> 0,  B |-> 1, S |-> 0,  I2 |-> 3, I3 |-> -1, J2 |-> 3, m |-> 1232, mk |-> 1076, ms |-> 1076, w |-> 117]
    [] c = pdg.Delta_m     -> [Q |-> -1, B |-> 1, S |-> 0,  I2 |-> 3, I3 |-> -3, J2 |-> 3, m |-> 1232, mk |-> 1076, ms |-> 1076, w |-> 117]
    [] c = pdg.Nstar1535_p -> [Q |-> 1,  B |-> 1, S |-> 0,  I2 |-> 1, I3 |-> 1,  J2 |-> 1, m |-> 1535, mk |-> 1076, ms |-> 1076, w |-> 150]
    [] c = pdg.Nstar1535_z -> [Q |-> 0,  B |-> 1, S |-> 0,  I2 |-> 1, I3 |-> -1, J2 |-> 1, m |-> 1535, mk |-> 1076, ms |-> 1076, w |-> 150]
    [] c = pdg.pi_p        -> [Q |-> 1,  B |-> 0, S |-> 0,  I2 |-> 2, I3 |-> 2,  J2 |-> 0, m |-> 138,  mk |-> 138,  ms |-> 138,  w |-> 0]
    [] c = pdg.pi_z        -> [Q |-> 0,  B |-> 0, S |-> 0,  I2 |-> 2, I3 |-> 0,  J2 |-> 0, m |-> 138,  mk |-> 138,  ms |-> 138,  w |-> 0]
    [] c = pdg.K_p         -> [Q |-> 1,  B |-> 0, S |-> 1,  I2 |-> 1, I3 |-> 1,  J2 |-> 0, m |-> 494,  mk |-> 494,  ms |-> 494,  w |-> 0]
    [] c = pdg.K_z         -> [Q |-> 0,  B |-> 0, S |-> 1,  I2 |-> 1, I3 |-> -1, J2 |-> 0, m |-> 494,  mk |-> 494,  ms |-> 494,  w |-> 0]
    [] c = pdg.rho_z       -> [Q |-> 0,  B |-> 0, S |-> 0,  I2 |-> 2, I3 |-> 0,  J2 |-> 2, m |-> 776,  mk |-> 276,  ms |-> 276,  w |-> 149]
    [] c = pdg.h1          -> [Q |-> 0,  B |-> 0, S |-> 0,  I2 |-> 0, I3 |-> 0,  J2 |-> 2, m |-> 1170, mk |-> 414,  ms |-> 414,  w |-> 360]
    [] c = pdg.decimal_d   -> [Q |-> 1,  B |-> 2, S |-> 0,  I2 |-> 0, I3 |-> 0,  J2 |-> 2, m |-> 1875, mk |-> 1875, ms |-> 1875, w |-> 0]
    [] c = pdg.dprime      -> [Q |-> 1,  B |-> 2, S |-> 0,  I2 |-> 0, I3 |-> 0,  J2 |-> 2, m |-> 1886, mk |-> 1876, ms |-> 1876, w |-> 100]]

\* a code of the registry refers to its base entry; pi- is the antiparticle of pi+
BaseOf(c) == IF c \in BaseCodes THEN c ELSE -c
Sgn(c) == IF c \in BaseCodes THEN 1 ELSE -1

\* the family of a type, which is also its isospin multiplet up to the sign
Family(c) ==
  CASE c \in {pdg.p, pdg.n} -> "N"
    [] c \in {pdg.Delta_pp, pdg.Delta_p, pdg.Delta_z, pdg.Delta_m} -> "Delta"
    [] c \in {pdg.Nstar1535_p, pdg.Nstar1535_z} -> "N1535"
    [] c = pdg.Lambda -> "Lambda"
    [] c \in {pdg.Sigma_p, pdg.Sigma_z, pdg.Sigma_m} -> "Sigma"
    [] c \in {pdg.pi_p, pdg.pi_z} -> "pi"
    [] c \in {pdg.K_p, pdg.K_z} -> "K"
    [] c = pdg.rho_z -> "rho"
    [] c = pdg.h1 -> "h1"
    [] c = pdg.decimal_d -> "d"
    [] c = pdg.dprime -> "dprime"

\* the registry as loaded: one entry per type, antiparticles included
Registry ==
  [c \in list_all |->
     LET d == BaseData[BaseOf(c)]
     IN  [charge |-> Sgn(c) * d.Q, baryon_number |-> Sgn(c) * d.B,
          strangeness |-> Sgn(c) * d.S, isospin |-> d.I2,
          isospin3 |-> Sgn(c) * d.I3, spin |-> d.J2, mass |-> d.m,
          min_mass_kinematic |-> d.mk, min_mass_spectral |-> d.ms,
          width_at_pole |-> d.w, family |-> Family(BaseOf(c)),
          iso_multiplet |-> <<Family(BaseOf(c)),
                              IF Family(BaseOf(c)) = "pi" THEN 1 ELSE Sgn(c)>>]]

charge(c)             == registry[c].charge
baryon_number(c)      == registry[c].baryon_number
strangeness(c)        == registry[c].strangeness
isospin(c)            == registry[c].isospin
isospin3(c)           == registry[c].isospin3
spin(c)               == registry[c].spin
mass(c)               == registry[c].mass
min_mass_kinematic(c) == registry[c].min_mass_kinematic
min_mass_spectral(c)  == registry[c].min_mass_spectral
width_at_pole(c)      == registry[c].width_at_pole
is_stable(c)          == registry[c].width_at_pole = 0
antiparticle_sign(c)  == IF c < 0 THEN -1 ELSE 1
has_antiparticle(c)   == c \notin SelfConjugate
get_antiparticle(c)   == IF has_antiparticle(c) THEN -c ELSE c
is_antiparticle_of(a, b) == a = -b

is_nucleon(c)   == registry[c].family = "N"
is_Delta(c)     == registry[c].family = "Delta"
is_Nstar1535(c) == registry[c].family = "N1535"
is_Nstar(c)     == registry[c].family \in {"N1535", "Nstar"}
is_Deltastar(c) == registry[c].family = "Deltastar"
is_hyperon(c)   == registry[c].family \in {"Lambda", "Sigma"}
is_pion(c)      == registry[c].family = "pi"
is_kaon(c)      == registry[c].family = "K"
is_nucleus(c)   == registry[c].family \in {"d", "dprime"}
is_deuteron(c)  == registry[c].family = "d"
is_dprime(c)    == registry[c].family = "dprime"
is_baryon(c)    == ~is_nucleus(c) /\ registry[c].baryon_number # 0
is_meson(c)     == ~is_nucleus(c) /\ registry[c].baryon_number = 0

\* equality of isospin multiplets (iso_multiplet() pointers)
iso_multiplet(c) == registry[c].iso_multiplet


\* ParticleType::list_nucleons() etc., in registry order
list_nucleons      == <<pdg.p, pdg.n>>
list_anti_nucleons == <<-pdg.p, -pdg.n>>
list_Deltas        == <<pdg.Delta_pp, pdg.Delta_p, pdg.Delta_z, pdg.Delta_m>>
list_anti_Deltas   == <<-pdg.Delta_pp, -pdg.Delta_p, -pdg.Delta_z, -pdg.Delta_m>>
\* every unstable baryon, each followed by its antiparticle
list_baryon_resonances ==
  <<pdg.Delta_pp, -pdg.Delta_pp, pdg.Delta_p, -pdg.Delta_p,
    pdg.Delta_z, -pdg.Delta_z, pdg.Delta_m, -pdg.Delta_m,
    pdg.Nstar1535_p, -pdg.Nstar1535_p, pdg.Nstar1535_z, -pdg.Nstar1535_z>>
list_light_nuclei  == <<pdg.decimal_d, pdg.decimal_antid, pdg.dprime, -pdg.dprime>>
\* list_all() as the sequence the 2->1 loop walks
list_all_seq ==
  <<pdg.pi_p, pdg.pi_z, pdg.pi_m, pdg.K_p, pdg.K_z, pdg.Kbar_z, pdg.K_m,
    pdg.rho_z, pdg.h1, pdg.p, -pdg.p, pdg.n, -pdg.n,
    pdg.Lambda, -pdg.Lambda, pdg.Sigma_p, -pdg.Sigma_p, pdg.Sigma_z, -pdg.Sigma_z,
    pdg.Sigma_m, -pdg.Sigma_m>> \o list_baryon_resonances \o list_light_nuclei

-----------------------------------------------------------------------------
(* Parametrizations (external): scalar functions of s or sqrt_s.           *)
(* Each is a fixed function of its argument; `profile` selects the table.  *)
(* Table 0 has every value above really_small; the other tables also hold  *)
(* negative, zero and negligible values, which the kernel must screen.     *)

really_small == 1

par == [pp_elastic |-> 1, ppbar_elastic |-> 2, np_elastic |-> 3,
        piplusp_elastic |-> 4, piminusp_elastic |-> 5,
        kplusp_elastic_background |-> 6, kminusp_elastic_background |-> 7,
        k0p_elastic_background |-> 8, kbar0p_elastic_background |-> 9,
        kplusn_elastic_background |-> 10, kminusn_elastic_background |-> 11,
        k0n_elastic_background |-> 12, kbar0n_elastic_background |-> 13,
        kplusp_inelastic_background |-> 14, kplusn_inelastic_background |-> 15,
        kminusp_piminussigmaplus |-> 16, kminusp_piplussigmaminus |-> 17,
        kminusp_pi0sigma0 |-> 18, kminusp_pi0lambda |-> 19, kminusp_kbar0n |-> 20,
        kminusn_piminussigma0 |-> 21, kminusn_pi0sigmaminus |-> 22,
        kminusn_piminuslambda |-> 23, kplusn_k0p |-> 24,
        pp_high_energy |-> 25, ppbar_high_energy |-> 26, np_high_energy |-> 27,
        npbar_high_energy |-> 28, piplusp_high_energy |-> 29,
        piminusp_high_energy |-> 30, NN_string_hard |-> 31,
        Npi_string_hard |-> 32, pipi_string_hard |-> 33, ppbar_total |-> 34]

\* the value of table `profile` for function i at argument x
Table(i, x) ==
  LET h == (i * 5 + x) % 7
  IN  IF profile = 0 THEN 2 + (h % 4) ELSE ((h * profile + i) % 6) - 1

Param(i, x) == Table(i, x)

\* x/2 on the grid, keeping the sign (0.5 * (a + b) in npi_el)
Half(x) == IF x >= 0 THEN (x + 1) \div 2 ELSE -((1 - x) \div 2)

-----------------------------------------------------------------------------
(* Kinematics, isospin and mass integrals (external)                       *)

\* pCM(sqrts, m1, m2): positive above threshold, zero at it
pCM(sqrts, ma, mb) == IF sqrts > ma + mb THEN 1 + ((sqrts - ma - mb) \div 1000) ELSE 0

\* the values of total isospin 2I the pair can couple to, largest first
I_tot_range(a, b) ==
  LET hi == isospin(a) + isospin(b)
      lo == Max(Abs(isospin(a) - isospin(b)), Abs(isospin3(a) + isospin3(b)))
      n  == IF hi >= lo THEN ((hi - lo) \div 2) + 1 ELSE 0
  IN  [k \in 1..n |-> hi - 2 * (k - 1)]

InIsoRange(a, b, twoI) ==
  /\ twoI <= isospin(a) + isospin(b)
  /\ twoI >= Abs(isospin(a) - isospin(b))
  /\ twoI >= Abs(isospin3(a) + isospin3(b))
  /\ (isospin(a) + isospin(b) - twoI) % 2 = 0

\* isospin_clebsch_gordan_sqr_2to2(a, b, c, d, twoI): zero unless the
\* projection is conserved and both pairs couple to twoI
isospin_clebsch_gordan_sqr_2to2(a, b, c, d, twoI) ==
  IF /\ isospin3(a) + isospin3(b) = isospin3(c) + isospin3(d)
     /\ InIsoRange(a, b, twoI)
     /\ InIsoRange(c, d, twoI)
  THEN 1 + ((twoI \div 2) % 2)
  ELSE 0

\* KaonNucleonRatios::get_ratio(a, b, c, d): isospin weight of a b -> c d
get_ratio(a, b, c, d) ==
  IF isospin3(a) + isospin3(b) = isospin3(c) + isospin3(d)
  THEN 1 + ((Abs(isospin3(c)) + Abs(isospin3(d))) % 2)
  ELSE 0

\* a strictly positive value of table `profile`
PosTable(i, x) == 1 + ((Table(i, x) + 1) % 3)

\* mass integrals of an isospin multiplet: zero when no mass is in reach,
\* positive otherwise
get_integral_NR(res, sqrts) ==
  IF sqrts > min_mass_spectral(res) + mass(pdg.p)
  THEN PosTable(40, sqrts + mass(res)) ELSE 0
get_integral_RR(res1, res2, sqrts) ==
  IF sqrts > min_mass_spectral(res1) + min_mass_spectral(res2)
  THEN PosTable(41, sqrts + mass(res1) + mass(res2)) ELSE 0
get_integral_RK(res, sqrts) ==
  IF sqrts > min_mass_spectral(res) + mass(pdg.K_p)
  THEN PosTable(42, sqrts + mass(res)) ELSE 0
get_integral_piR(res, sqrts) ==
  IF sqrts > min_mass_spectral(res) + mass(pdg.pi_p)
  THEN PosTable(43, sqrts + mass(res)) ELSE 0

\* the decay channels of the registry, by multiplet
DecaysInto(res, a, b) ==
  LET two == {iso_multiplet(a)[1], iso_multiplet(b)[1]}
      r   == iso_multiplet(res)[1]
  IN  \/ r \in {"Delta", "N1535"} /\ two = {"N", "pi"}
      \/ res = pdg.rho_z /\ two = {"pi"}
      \/ res = pdg.h1 /\ ({a, b} = {pdg.rho_z, pdg.pi_z} \/ ({a, b} \subseteq {pdg.pi_p, pdg.pi_m, pdg.rho_z} /\ a # b))
      \/ is_dprime(res) /\ two = {"N"}

\* ParticleType::get_partial_in_width(sqrt_s, a, b)
get_partial_in_width(res, sqrts, a, b) ==
  IF DecaysInto(res, a, b) /\ sqrts > min_mass_spectral(res)
  THEN Table(44, sqrts + mass(res)) ELSE 0

\* ParticleType::spectral_function(sqrt_s): zero when no mass is in reach;
\* above, positive in table 0 and, in the other tables, also 0 for a value
\* too small to give a cross section of one unit
spectral_function(res, sqrts) ==
  IF sqrts > min_mass_spectral(res)
  THEN (IF profile = 0 THEN 1 + (Table(45, sqrts) % 2) ELSE Table(45, sqrts + mass(res)) % 3)
  ELSE 0


-----------------------------------------------------------------------------
(* Values of the kernel *)

IncludedReactions == {"Elastic", "NN_to_NR", "NN_to_DR", "KN_to_KN",
                      "KN_to_KDelta", "Strangeness_exchange"}
NNbarTreatment == {"NoAnnihilation", "Resonances", "Strings"}
ProcessType == {"Elastic", "TwoToOne", "TwoToTwo", "StringSoft", "StringHard"}
\* StringSoftType, by its integer value 0..3; the value 4 is None
StringSoftType == <<"SingleDiffAX", "SingleDiffXB", "DoubleDiff", "NonDiff">>
NoSubproc == "None"

\* a CollisionBranch: particle types, weight and process type; `by` names
\* the routine that built the branch
CollisionBranch(products, weight, type, by) ==
  [products |-> products, weight |-> weight, type |-> type, by |-> by]

\* what one pass through a loop body leaves on the list: a branch, or nothing
NoBranch == [type |-> "none"]
IsBranch(b) == b.type # "none"
\* the list a loop builds, from what each of its passes leaves, in loop order
Emitted(passes) == SelectSeq(passes, IsBranch)

NoError == [what |-> "none"]
\* a returned double, or the std::runtime_error thrown instead
Returned(x) == [throws |-> FALSE, value |-> x]
Thrown(e)   == [throws |-> TRUE, error |-> e]

s_of(sqrts) == sqrts * sqrts

RECURSIVE SumWeights(_, _)
SumWeights(list, n) ==
  IF n = 0 THEN 0 ELSE SumWeights(list, n - 1) + list[n].weight

\* sum_xs_of
sum_xs_of(list) == SumWeights(list, Len(list))

\* append_list putting the new branches in front (a variant the order of
\* the list is checked against)
append_list_in_front(main_list, in_list) == in_list \o main_list

\* append_list
append_list(main_list, in_list) == main_list \o in_list

\* add_channel, by what it leaves on the list: nothing at or below the
\* threshold of the two products, and nothing for a cross section that is
\* not above really_small
\* add_channel without the test against really_small (a variant the
\* screening of the reverse branches is checked against)
add_channel_without_screen(xsection, sqrts, type_a, type_b) ==
  IF sqrts <= min_mass_spectral(type_a) + min_mass_spectral(type_b)
  THEN NoBranch
  ELSE CollisionBranch(<<type_a, type_b>>, xsection, "TwoToTwo", "two_to_two")

add_channel(xsection, sqrts, type_a, type_b) ==
  IF sqrts <= min_mass_spectral(type_a) + min_mass_spectral(type_b)
  THEN NoBranch
  ELSE IF xsection > really_small
       THEN CollisionBranch(<<type_a, type_b>>, xsection, "TwoToTwo", "two_to_two")
       ELSE NoBranch

\* cm_momentum(): the incoming particles are on their pole masses where the
\* energy allows it, and on their lowest masses otherwise
cm_momentum ==
  IF sqrt_s > mass(t1) + mass(t2)
  THEN pCM(sqrt_s, mass(t1), mass(t2))
  ELSE pCM(sqrt_s, min_mass_kinematic(t1), min_mass_kinematic(t2))

-----------------------------------------------------------------------------
(* Detailed-balance factors, as fractions num / den of whole numbers: the  *)
(* spin and symmetry weights and the momenta of the final state (num) and  *)
(* of the initial state (den)                                              *)

detailed_balance_factor_stable(s, a, b, c, d) ==
  [num |-> (spin(c) + 1) * (spin(d) + 1) * (1 + (IF a = b THEN 1 ELSE 0))
             * pCM(sqrt_s, mass(c), mass(d)) * pCM(sqrt_s, mass(c), mass(d)),
   den |-> (spin(a) + 1) * (spin(b) + 1) * (1 + (IF c = d THEN 1 ELSE 0))
             * pCM(sqrt_s, mass(a), mass(b)) * pCM(sqrt_s, mass(a), mass(b))]

detailed_balance_factor_RK(sqrts, pcm, a, b, c, d) ==
  [num |-> (spin(c) + 1) * (spin(d) + 1) * (1 + (IF a = b THEN 1 ELSE 0))
             * pCM(sqrts, mass(c), mass(d)) * pCM(sqrts, mass(c), mass(d)),
   den |-> (spin(a) + 1) * (spin(b) + 1) * (1 + (IF c = d THEN 1 ELSE 0))
             * pcm * get_integral_RK(a, sqrts)]

detailed_balance_factor_RR(sqrts, pcm, a, b, c, d) ==
  [num |-> (spin(c) + 1) * (spin(d) + 1) * (1 + (IF a = b THEN 1 ELSE 0))
             * pCM(sqrts, mass(c), mass(d)) * pCM(sqrts, mass(c), mass(d)),
   den |-> (spin(a) + 1) * (spin(b) + 1) * (1 + (IF c = d THEN 1 ELSE 0))
             * pcm * get_integral_RR(a, b, sqrts)]

\* a detailed-balance factor times a cross section, on the grid
Times(R, xs) == (R.num * xs) \div R.den

-----------------------------------------------------------------------------
(* Elastic cross section *)

ElasticProblem(sig_el) ==
  [what |-> "problem in CrossSections::elastic", a |-> t1, b |-> t2,
   j_a |-> spin(t1), j_b |-> spin(t2), sigma |-> sig_el, s |-> s_of(sqrt_s)]

\* the final test replaced by a clamp to zero (a variant the error
\* handling is checked against)
PositiveOrClamp(sig_el) == Returned(IF sig_el > 0 THEN sig_el ELSE 0)

\* the final test shared by nn_el, npi_el and nk_el
PositiveOrThrow(sig_el) ==
  IF sig_el > 0 THEN Returned(sig_el) ELSE Thrown(ElasticProblem(sig_el))

nn_el ==
  LET s == s_of(sqrt_s)
      sig_el == IF t1 = t2 THEN Param(par.pp_elastic, s)
                ELSE IF is_antiparticle_of(t1, t2) THEN Param(par.ppbar_elastic, s)
                ELSE Param(par.np_elastic, s)
  IN  PositiveOrThrow(sig_el)

npi_el ==
  LET nucleon == IF is_nucleon(t1) THEN t1 ELSE t2
      pion    == IF is_nucleon(t1) THEN t2 ELSE t1
      s       == s_of(sqrt_s)
      plus    == Param(par.piplusp_elastic, s)
      minus   == Param(par.piminusp_elastic, s)
      mean    == Half(plus + minus)
      sig_el  ==
        CASE nucleon = pdg.p ->
               (CASE pion = pdg.pi_p -> plus [] pion = pdg.pi_m -> minus
                  [] pion = pdg.pi_z -> mean [] OTHER -> 0)
          [] nucleon = pdg.n ->
               (CASE pion = pdg.pi_p -> minus [] pion = pdg.pi_m -> plus
                  [] pion = pdg.pi_z -> mean [] OTHER -> 0)
          [] nucleon = -pdg.p ->
               (CASE pion = pdg.pi_p -> minus [] pion = pdg.pi_m -> plus
                  [] pion = pdg.pi_z -> mean [] OTHER -> 0)
          [] nucleon = -pdg.n ->
               (CASE pion = pdg.pi_p -> plus [] pion = pdg.pi_m -> minus
                  [] pion = pdg.pi_z -> mean [] OTHER -> 0)
  IN  IF Abs(nucleon) \notin {pdg.p, pdg.n}
      THEN Thrown([what |-> "only the elastic cross section for proton-pion is implemented"])
      ELSE PositiveOrThrow(sig_el)

nk_el ==
  LET nucleon == IF is_nucleon(t1) THEN t1 ELSE t2
      kaon    == IF is_nucleon(t1) THEN t2 ELSE t1
      s       == s_of(sqrt_s)
      sig_el  ==
        CASE nucleon = pdg.p ->
               (CASE kaon = pdg.K_p    -> Param(par.kplusp_elastic_background, s)
                  [] kaon = pdg.K_m    -> Param(par.kminusp_elastic_background, s)
                  [] kaon = pdg.K_z    -> Param(par.k0p_elastic_background, s)
                  [] kaon = pdg.Kbar_z -> Param(par.kbar0p_elastic_background, s)
                  [] OTHER -> 0)
          [] nucleon = pdg.n ->
               (CASE kaon = pdg.K_p    -> Param(par.kplusn_elastic_background, s)
                  [] kaon = pdg.K_m    -> Param(par.kminusn_elastic_background, s)
                  [] kaon = pdg.K_z    -> Param(par.k0n_elastic_background, s)
                  [] kaon = pdg.Kbar_z -> Param(par.kbar0n_elastic_background, s)
                  [] OTHER -> 0)
          [] nucleon = -pdg.p ->
               (CASE kaon = pdg.K_p    -> Param(par.kminusp_elastic_background, s)
                  [] kaon = pdg.K_m    -> Param(par.kplusp_elastic_background, s)
                  [] kaon = pdg.K_z    -> Param(par.kbar0p_elastic_background, s)
                  [] kaon = pdg.Kbar_z -> Param(par.k0p_elastic_background, s)
                  [] OTHER -> 0)
          [] nucleon = -pdg.n ->
               (CASE kaon = pdg.K_p    -> Param(par.kminusn_elastic_background, s)
                  [] kaon = pdg.K_m    -> Param(par.kplusn_elastic_background, s)
                  [] kaon = pdg.K_z    -> Param(par.kbar0n_elastic_background, s)
                  [] kaon = pdg.Kbar_z -> Param(par.k0n_elastic_background, s)
                  [] OTHER -> 0)
  IN  IF Abs(nucleon) \notin {pdg.p, pdg.n}
      THEN Thrown([what |-> "elastic cross section for antinucleon-kaon not implemented"])
      ELSE PositiveOrThrow(sig_el)

elastic_parametrization ==
  IF (is_nucleon(t1) /\ is_pion(t2)) \/ (is_nucleon(t2) /\ is_pion(t1))
  THEN npi_el
  ELSE IF (is_nucleon(t1) /\ is_kaon(t2)) \/ (is_nucleon(t2) /\ is_kaon(t1))
  THEN nk_el
  ELSE IF is_nucleon(t1) /\ is_nucleon(t2)
          /\ antiparticle_sign(t1) = antiparticle_sign(t2)
  THEN nn_el
  ELSE Returned(0)

\* elastic(elast_par): the branch, or the exception of the parametrization
elastic(elast_par) ==
  LET xs == IF elast_par >= 0 THEN Returned(elast_par) ELSE elastic_parametrization
  IN  IF xs.throws THEN xs
      ELSE Returned(CollisionBranch(<<t1, t2>>, xs.value, "Elastic", "elastic"))


-----------------------------------------------------------------------------
(* Loops *)

\* the pairs of a doubly nested loop, outer loop first
Nested(outer, inner) ==
  [k \in 1..(Len(outer) * Len(inner)) |->
     <<outer[((k - 1) \div Len(inner)) + 1], inner[((k - 1) % Len(inner)) + 1]>>]

-----------------------------------------------------------------------------
(* Resonance formation, 2 -> 1 *)

\* formation without its charge test (a variant the conservation laws are
\* checked against)
formation_without_charge_test(type_resonance, cm_momentum_sqr) ==
  IF baryon_number(type_resonance) # baryon_number(t1) + baryon_number(t2) THEN 0
  ELSE LET partial_width == get_partial_in_width(type_resonance, sqrt_s, t1, t2)
       IN  IF partial_width <= 0 THEN 0
           ELSE (spin(type_resonance) + 1) * (IF t1 = t2 THEN 2 ELSE 1)
                  * spectral_function(type_resonance, sqrt_s) * partial_width

formation(type_resonance, cm_momentum_sqr) ==
  IF charge(type_resonance) # charge(t1) + charge(t2) THEN 0
  ELSE IF baryon_number(type_resonance) # baryon_number(t1) + baryon_number(t2) THEN 0
  ELSE LET partial_width == get_partial_in_width(type_resonance, sqrt_s, t1, t2)
       IN  IF partial_width <= 0 THEN 0
           ELSE (spin(type_resonance) + 1) * (IF t1 = t2 THEN 2 ELSE 1)
                  * spectral_function(type_resonance, sqrt_s) * partial_width

\* the body of the loop over ParticleType::list_all()
two_to_one_step(type_resonance) ==
  IF is_stable(type_resonance) THEN NoBranch
  ELSE IF (~is_stable(t1) /\ type_resonance = t1) \/ (~is_stable(t2) /\ type_resonance = t2)
  THEN NoBranch
  ELSE LET resonance_xsection == formation(type_resonance, cm_momentum * cm_momentum)
       IN  IF resonance_xsection > really_small
           THEN CollisionBranch(<<type_resonance>>, resonance_xsection,
                                "TwoToOne", "two_to_one")
           ELSE NoBranch

\* two_to_one walking the registry from its end (a variant the order of the
\* branches is checked against)
two_to_one_from_the_end ==
  Emitted([k \in 1..Len(list_all_seq) |->
             two_to_one_step(list_all_seq[Len(list_all_seq) + 1 - k])])

two_to_one ==
  Emitted([k \in 1..Len(list_all_seq) |-> two_to_one_step(list_all_seq[k])])


-----------------------------------------------------------------------------
(* 2 -> 2 through the NN -> X matrix element *)

\* nn_to_resonance_matrix_element that knows N Delta in one order only (a
\* variant the exchange of its arguments is checked against)
nn_to_resonance_matrix_element_first_is_Delta(sqrts, type_a, type_b, twoI) ==
  LET m_a == mass(type_a)
      m_b == mass(type_b)
      uplmt == m_a + m_b + 3 * (width_at_pole(type_a) + width_at_pole(type_b)) + 3000
      same_sign == antiparticle_sign(type_a) = antiparticle_sign(type_b)
  IN  IF sqrts > uplmt THEN 0
      ELSE IF (is_Delta(type_a) /\ is_nucleon(type_b))
              /\ same_sign
      THEN 68
      ELSE IF ((is_Nstar(type_a) /\ is_nucleon(type_b)) \/ (is_Nstar(type_b) /\ is_nucleon(type_a)))
              /\ same_sign
      THEN (IF twoI = 2 THEN 7
            ELSE IF twoI = 0
                 THEN (IF is_Nstar1535(type_a) \/ is_Nstar1535(type_b) THEN 91 ELSE 14)
                 ELSE 0)
      ELSE IF ((is_Deltastar(type_a) /\ is_nucleon(type_b)) \/ (is_Deltastar(type_b) /\ is_nucleon(type_a)))
              /\ same_sign
      THEN 15
      ELSE IF (is_Delta(type_a) /\ is_Delta(type_b)) /\ same_sign
      THEN (IF twoI = 2 THEN 45 ELSE IF twoI = 0 THEN 120 ELSE 0)
      ELSE IF ((is_Nstar(type_a) /\ is_Delta(type_b)) \/ (is_Nstar(type_b) /\ is_Delta(type_a)))
              /\ same_sign
      THEN 7
      ELSE IF ((is_Deltastar(type_a) /\ is_Delta(type_b)) \/ (is_Deltastar(type_b) /\ is_Delta(type_a)))
              /\ same_sign
      THEN (IF twoI = 2 THEN 15 ELSE IF twoI = 0 THEN 25 ELSE 0)
      ELSE IF (is_deuteron(type_a) /\ is_pion(type_b)) \/ (is_deuteron(type_b) /\ is_pion(type_a))
      THEN (IF sqrts > 2000 THEN 55 ELSE IF sqrts = 2000 THEN 0 ELSE -55)
      ELSE 0

\* the value is the numerator of the table of the source (over msqr, or the
\* fitted curve): only its sign and its zeros matter on the grid
nn_to_resonance_matrix_element(sqrts, type_a, type_b, twoI) ==
  LET m_a == mass(type_a)
      m_b == mass(type_b)
      uplmt == m_a + m_b + 3 * (width_at_pole(type_a) + width_at_pole(type_b)) + 3000
      same_sign == antiparticle_sign(type_a) = antiparticle_sign(type_b)
  IN  IF sqrts > uplmt THEN 0
      ELSE IF ((is_Delta(type_a) /\ is_nucleon(type_b)) \/ (is_Delta(type_b) /\ is_nucleon(type_a)))
              /\ same_sign
      THEN 68
      ELSE IF ((is_Nstar(type_a) /\ is_nucleon(type_b)) \/ (is_Nstar(type_b) /\ is_nucleon(type_a)))
              /\ same_sign
      THEN (IF twoI = 2 THEN 7
            ELSE IF twoI = 0
                 THEN (IF is_Nstar1535(type_a) \/ is_Nstar1535(type_b) THEN 91 ELSE 14)
                 ELSE 0)
      ELSE IF ((is_Deltastar(type_a) /\ is_nucleon(type_b)) \/ (is_Deltastar(type_b) /\ is_nucleon(type_a)))
              /\ same_sign
      THEN 15
      ELSE IF (is_Delta(type_a) /\ is_Delta(type_b)) /\ same_sign
      THEN (IF twoI = 2 THEN 45 ELSE IF twoI = 0 THEN 120 ELSE 0)
      ELSE IF ((is_Nstar(type_a) /\ is_Delta(type_b)) \/ (is_Nstar(type_b) /\ is_Delta(type_a)))
              /\ same_sign
      THEN 7
      ELSE IF ((is_Deltastar(type_a) /\ is_Delta(type_b)) \/ (is_Deltastar(type_b) /\ is_Delta(type_a)))
              /\ same_sign
      THEN (IF twoI = 2 THEN 15 ELSE IF twoI = 0 THEN 25 ELSE 0)
      ELSE IF (is_deuteron(type_a) /\ is_pion(type_b)) \/ (is_deuteron(type_b) /\ is_pion(type_a))
      THEN (IF sqrts > 2000 THEN 55 ELSE IF sqrts = 2000 THEN 0 ELSE -55)
      ELSE 0

\* the three integrators nn_xx hands to find_nn_xsection_from_type
Integrator(kind, type_res_1, type_res_2) ==
  CASE kind = "NR"  -> get_integral_NR(type_res_1, sqrt_s)
    [] kind = "RR"  -> get_integral_RR(type_res_1, type_res_2, sqrt_s)
    [] kind = "pCM" -> pCM(sqrt_s, mass(type_res_1), mass(type_res_2))

\* the body of the loop over total isospin in find_nn_xsection_from_type
nn_xsection_channel(type_res_1, type_res_2, twoI, kind) ==
  LET isospin_factor == isospin_clebsch_gordan_sqr_2to2(t1, t2, type_res_1, type_res_2, twoI)
      lower_limit == min_mass_kinematic(type_res_1)
      upper_limit == sqrt_s - mass(type_res_2)
      matrix_element == nn_to_resonance_matrix_element(sqrt_s, type_res_1, type_res_2, twoI)
      xsection == isospin_factor * (spin(type_res_1) + 1) * (spin(type_res_2) + 1)
                    * matrix_element * Integrator(kind, type_res_1, type_res_2)
  IN  IF charge(type_res_1) + charge(type_res_2) # charge(t1) + charge(t2) THEN NoBranch
      ELSE IF Abs(isospin_factor) < really_small THEN NoBranch
      ELSE IF upper_limit - lower_limit < 1 THEN NoBranch
      ELSE IF matrix_element <= 0 THEN NoBranch
      ELSE IF xsection > really_small
           THEN CollisionBranch(<<type_res_1, type_res_2>>, xsection,
                                "TwoToTwo", "two_to_two")
           ELSE NoBranch

\* the loops over list_res_1, list_res_2 and I_tot_range of the incoming pair
find_nn_xsection_from_type(list_res_1, list_res_2, kind) ==
  LET passes == Nested(Nested(list_res_1, list_res_2), I_tot_range(t1, t2))
  IN  Emitted([k \in 1..Len(passes) |->
                 nn_xsection_channel(passes[k][1][1], passes[k][1][2], passes[k][2], kind)])

nn_xx(included_2to2) ==
  LET both_antinucleons == antiparticle_sign(t1) = -1 /\ antiparticle_sign(t2) = -1
      nuc_or_anti_nuc == IF both_antinucleons THEN list_anti_nucleons ELSE list_nucleons
      delta_or_anti_delta == IF both_antinucleons THEN list_anti_Deltas ELSE list_Deltas
      nr == IF "NN_to_NR" \in included_2to2
            THEN find_nn_xsection_from_type(list_baryon_resonances, nuc_or_anti_nuc, "NR")
            ELSE <<>>
      dr == IF "NN_to_DR" \in included_2to2
            THEN find_nn_xsection_from_type(list_baryon_resonances, delta_or_anti_delta, "RR")
            ELSE <<>>
      dpi == find_nn_xsection_from_type(
               (IF both_antinucleons THEN <<pdg.decimal_antid>> ELSE <<pdg.decimal_d>>),
               <<pdg.pi_m, pdg.pi_z, pdg.pi_p>>, "pCM")
  IN  nr \o dr \o dpi

\* the body of the loop over total isospin in bar_bar_to_nuc_nuc and in the
\* pi d -> N N part of dpi_xx
absorption_channel(nuc_a, nuc_b, i) ==
  LET range == I_tot_range(nuc_a, nuc_b)
      twoI == range[i]
      isospin_factor == isospin_clebsch_gordan_sqr_2to2(t1, t2, nuc_a, nuc_b, twoI)
      matrix_element == nn_to_resonance_matrix_element(sqrt_s, t1, t2, twoI)
      sym_fac_in == IF iso_multiplet(t1) = iso_multiplet(t2) THEN 2 ELSE 1
      p_cm_final == pCM(sqrt_s, mass(nuc_a), mass(nuc_b))
      xsection == isospin_factor * (spin(nuc_a) + 1) * (spin(nuc_b) + 1) * sym_fac_in
                    * p_cm_final * matrix_element
  IN  IF charge(t1) + charge(t2) # charge(nuc_a) + charge(nuc_b) THEN NoBranch
      ELSE IF i > Len(range) THEN NoBranch
      ELSE IF Abs(isospin_factor) < really_small THEN NoBranch
      ELSE IF matrix_element <= 0 THEN NoBranch
      ELSE IF xsection > really_small
           THEN CollisionBranch(<<nuc_a, nuc_b>>, xsection, "TwoToTwo", "two_to_two")
           ELSE NoBranch

\* the loops over nuc_a, nuc_b and the i-th value of I_tot_range(nuc_a, nuc_b);
\* two nucleons couple to at most two values of total isospin
absorption_loop(nuc) ==
  LET passes == Nested(Nested(nuc, nuc), <<1, 2>>)
  IN  Emitted([k \in 1..Len(passes) |->
                 absorption_channel(passes[k][1][1], passes[k][1][2], passes[k][2])])

bar_bar_to_nuc_nuc(is_anti_particles) ==
  absorption_loop(IF is_anti_particles THEN list_anti_nucleons ELSE list_nucleons)

\* bb_xx_except_nn asking for NN_to_NR in both of its cases (a variant the
\* bits are checked against)
bb_xx_except_nn_by_one_bit(included_2to2) ==
  LET same_sign == antiparticle_sign(t1) = antiparticle_sign(t2)
      any_nucleus == is_nucleus(t1) \/ is_nucleus(t2)
      anti_particles == antiparticle_sign(t1) = -1
  IN  IF ~same_sign /\ ~any_nucleus THEN <<>>
      ELSE IF is_nucleon(t1) \/ is_nucleon(t2)
      THEN (IF "NN_to_NR" \in included_2to2 THEN bar_bar_to_nuc_nuc(anti_particles) ELSE <<>>)
      ELSE IF is_Delta(t1) \/ is_Delta(t2)
      THEN (IF "NN_to_NR" \in included_2to2 THEN bar_bar_to_nuc_nuc(anti_particles) ELSE <<>>)
      ELSE <<>>

bb_xx_except_nn(included_2to2) ==
  LET same_sign == antiparticle_sign(t1) = antiparticle_sign(t2)
      any_nucleus == is_nucleus(t1) \/ is_nucleus(t2)
      anti_particles == antiparticle_sign(t1) = -1
  IN  IF ~same_sign /\ ~any_nucleus THEN <<>>
      ELSE IF is_nucleon(t1) \/ is_nucleon(t2)
      THEN (IF "NN_to_NR" \in included_2to2 THEN bar_bar_to_nuc_nuc(anti_particles) ELSE <<>>)
      ELSE IF is_Delta(t1) \/ is_Delta(t2)
      THEN (IF "NN_to_DR" \in included_2to2 THEN bar_bar_to_nuc_nuc(anti_particles) ELSE <<>>)
      ELSE <<>>


-----------------------------------------------------------------------------
(* Nucleon-kaon, hyperon-pion and Delta-kaon tables *)

\* one add_channel call: the parametrization its cross section is made of,
\* whether that parametrization is called inside the thunk get_xsection (or
\* was evaluated before the call), the cross section and the product types
Chan(of, lazy, xs, type_a, type_b) ==
  [of |-> of, lazy |-> lazy, xs |-> xs, a |-> type_a, b |-> type_b]

\* the add_channel calls of one case of a table, in source order
add_channels(chans) ==
  Emitted([k \in 1..Len(chans) |->
             add_channel(chans[k].xs, sqrt_s, chans[k].a, chans[k].b)])

\* the channels whatever the bit says (a variant the bits are checked against)
Unconditionally(cond, chans) == chans

If(cond, chans) == IF cond THEN chans ELSE <<>>

\* the add_channel calls of nk_xx, in source order. sigma_kplusp and
\* sigma_kplusn are local variables, initialized on entry (lines 664-665)
nk_xx_calls(included_2to2) ==
  LET type_nucleon == IF is_nucleon(t1) THEN t1 ELSE t2
      type_kaon    == IF is_nucleon(t1) THEN t2 ELSE t1
      pdg_nucleon  == type_nucleon
      pdg_kaon     == type_kaon
      s            == s_of(sqrt_s)
      sigma_kplusp == Param(par.kplusp_inelastic_background, s)
      sigma_kplusn == Param(par.kplusn_inelastic_background, s)
      incl_KN_to_KN == "KN_to_KN" \in included_2to2
      incl_KN_to_KDelta == "KN_to_KDelta" \in included_2to2
      incl_Strangeness_exchange == "Strangeness_exchange" \in included_2to2
      ratio(c, d)  == get_ratio(type_nucleon, type_kaon, c, d)
      KD(of, sigma, k1, d1, k2, d2) ==
        <<Chan(of, FALSE, sigma * ratio(k1, d1), k1, d1),
          Chan(of, FALSE, sigma * ratio(k2, d2), k2, d2)>>
  IN  (
      CASE pdg_kaon = pdg.K_m /\ pdg_nucleon = pdg.p ->
             If(incl_Strangeness_exchange,
                <<Chan(par.kminusp_piminussigmaplus, TRUE, Param(par.kminusp_piminussigmaplus, sqrt_s), pdg.pi_m, pdg.Sigma_p),
                  Chan(par.kminusp_piplussigmaminus, TRUE, Param(par.kminusp_piplussigmaminus, sqrt_s), pdg.pi_p, pdg.Sigma_m),
                  Chan(par.kminusp_pi0sigma0, TRUE, Param(par.kminusp_pi0sigma0, sqrt_s), pdg.pi_z, pdg.Sigma_z),
                  Chan(par.kminusp_pi0lambda, TRUE, Param(par.kminusp_pi0lambda, sqrt_s), pdg.pi_z, pdg.Lambda)>>)
             \o If(incl_KN_to_KN,
                <<Chan(par.kminusp_kbar0n, TRUE, Param(par.kminusp_kbar0n, s), pdg.Kbar_z, pdg.n)>>)
        [] pdg_kaon = pdg.K_m /\ pdg_nucleon = pdg.n ->
             If(incl_Strangeness_exchange,
                <<Chan(par.kminusn_piminussigma0, TRUE, Param(par.kminusn_piminussigma0, sqrt_s), pdg.pi_m, pdg.Sigma_z),
                  Chan(par.kminusn_pi0sigmaminus, TRUE, Param(par.kminusn_pi0sigmaminus, sqrt_s), pdg.pi_z, pdg.Sigma_m),
                  Chan(par.kminusn_piminuslambda, TRUE, Param(par.kminusn_piminuslambda, sqrt_s), pdg.pi_m, pdg.Lambda)>>)
        [] pdg_kaon = pdg.K_m /\ pdg_nucleon = -pdg.p ->
             If(incl_KN_to_KDelta,
                KD(par.kplusp_inelastic_background, sigma_kplusp, pdg.Kbar_z, -pdg.Delta_pp, pdg.K_m, -pdg.Delta_p))
        [] pdg_kaon = pdg.K_m /\ pdg_nucleon = -pdg.n ->
             If(incl_KN_to_KDelta,
                KD(par.kplusn_inelastic_background, sigma_kplusn, pdg.Kbar_z, -pdg.Delta_p, pdg.K_m, -pdg.Delta_z))
             \o If(incl_KN_to_KN,
                <<Chan(par.kplusn_k0p, TRUE, Param(par.kplusn_k0p, s), pdg.Kbar_z, -pdg.p)>>)
        [] pdg_kaon = pdg.K_p /\ pdg_nucleon = pdg.p ->
             If(incl_KN_to_KDelta,
                KD(par.kplusp_inelastic_background, sigma_kplusp, pdg.K_z, pdg.Delta_pp, pdg.K_p, pdg.Delta_p))
        [] pdg_kaon = pdg.K_p /\ pdg_nucleon = pdg.n ->
             If(incl_KN_to_KDelta,
                KD(par.kplusn_inelastic_background, sigma_kplusn, pdg.K_z, pdg.Delta_p, pdg.K_p, pdg.Delta_z))
             \o If(incl_KN_to_KN,
                <<Chan(par.kplusn_k0p, TRUE, Param(par.kplusn_k0p, s), pdg.K_z, pdg.p)>>)
        [] pdg_kaon = pdg.K_p /\ pdg_nucleon = -pdg.p ->
             If(incl_Strangeness_exchange,
                <<Chan(par.kminusp_piminussigmaplus, TRUE, Param(par.kminusp_piminussigmaplus, sqrt_s), pdg.pi_p, -pdg.Sigma_p),
                  Chan(par.kminusp_piplussigmaminus, TRUE, Param(par.kminusp_piplussigmaminus, sqrt_s), pdg.pi_m, -pdg.Sigma_m),
                  Chan(par.kminusp_pi0sigma0, TRUE, Param(par.kminusp_pi0sigma0, sqrt_s), pdg.pi_z, -pdg.Sigma_z),
                  Chan(par.kminusp_pi0lambda, TRUE, Param(par.kminusp_pi0lambda, sqrt_s), pdg.pi_z, -pdg.Lambda)>>)
             \o If(incl_KN_to_KN,
                <<Chan(par.kminusp_kbar0n, TRUE, Param(par.kminusp_kbar0n, s), pdg.K_z, -pdg.n)>>)
        [] pdg_kaon = pdg.K_p /\ pdg_nucleon = -pdg.n ->
             If(incl_Strangeness_exchange,
                <<Chan(par.kminusn_piminussigma0, TRUE, Param(par.kminusn_piminussigma0, sqrt_s), pdg.pi_p, -pdg.Sigma_z),
                  Chan(par.kminusn_pi0sigmaminus, TRUE, Param(par.kminusn_pi0sigmaminus, sqrt_s), pdg.pi_z, -pdg.Sigma_m),
                  Chan(par.kminusn_piminuslambda, TRUE, Param(par.kminusn_piminuslambda, sqrt_s), pdg.pi_p, -pdg.Lambda)>>)
        [] pdg_kaon = pdg.K_z /\ pdg_nucleon = pdg.p ->
             If(incl_KN_to_KDelta,
                KD(par.kplusp_inelastic_background, sigma_kplusp, pdg.K_z, pdg.Delta_p, pdg.K_p, pdg.Delta_z))
             \o If(incl_KN_to_KN,
                <<Chan(par.kplusn_k0p, TRUE, Param(par.kplusn_k0p, s) * ratio(pdg.K_p, pdg.n), pdg.K_p, pdg.n)>>)
        [] pdg_kaon = pdg.K_z /\ pdg_nucleon = pdg.n ->
             If(incl_KN_to_KDelta,
                KD(par.kplusn_inelastic_background, sigma_kplusn, pdg.K_z, pdg.Delta_z, pdg.K_p, pdg.Delta_m))
        [] pdg_kaon = pdg.K_z /\ pdg_nucleon = -pdg.n ->
             If(incl_KN_to_KN,
                <<Chan(par.kminusp_kbar0n, TRUE, Param(par.kminusp_kbar0n, s), pdg.K_p, -pdg.p)>>)
        [] pdg_kaon = pdg.Kbar_z /\ pdg_nucleon = pdg.n ->
             If(incl_KN_to_KN,
                <<Chan(par.kminusp_kbar0n, TRUE, Param(par.kminusp_kbar0n, s), pdg.K_m, pdg.p)>>)
        [] pdg_kaon = pdg.Kbar_z /\ pdg_nucleon = -pdg.p ->
             If(incl_KN_to_KDelta,
                KD(par.kplusp_inelastic_background, sigma_kplusp, pdg.Kbar_z, -pdg.Delta_p, pdg.K_m, -pdg.Delta_z))
             \o If(incl_KN_to_KN,
                <<Chan(par.kplusn_k0p, TRUE, Param(par.kplusn_k0p, s) * ratio(pdg.K_m, -pdg.n), pdg.K_m, -pdg.n)>>)
        [] pdg_kaon = pdg.Kbar_z /\ pdg_nucleon = -pdg.n ->
             If(incl_KN_to_KDelta,
                KD(par.kplusn_inelastic_background, sigma_kplusn, pdg.Kbar_z, -pdg.Delta_z, pdg.K_m, -pdg.Delta_m))
        [] OTHER -> <<>>)

nk_xx(included_2to2) == add_channels(nk_xx_calls(included_2to2))

\* the add_channel calls of deltak_xx, in source order
deltak_xx_calls(included_2to2) ==
  LET type_delta == IF is_Delta(t1) THEN t1 ELSE t2
      type_kaon  == IF is_Delta(t1) THEN t2 ELSE t1
      s   == s_of(sqrt_s)
      pcm == cm_momentum
      pk  == <<type_delta, type_kaon>>
      \* detailed balance from the backward reaction n_ k_ -> kaon delta
      Back(sigma, n_, k_) ==
        Chan(sigma, TRUE,
             Times(detailed_balance_factor_RK(sqrt_s, pcm, type_delta, type_kaon, n_, k_),
                   get_ratio(n_, k_, type_kaon, type_delta) * Param(sigma, s)),
             n_, k_)
  IN  IF "KN_to_KDelta" \notin included_2to2 THEN <<>>
      ELSE (
        CASE pk \in {<<pdg.Delta_pp, pdg.K_z>>, <<pdg.Delta_p, pdg.K_p>>} ->
               <<Back(par.kplusp_inelastic_background, pdg.p, pdg.K_p)>>
          [] pk \in {<<-pdg.Delta_pp, pdg.Kbar_z>>, <<-pdg.Delta_p, pdg.K_m>>} ->
               <<Back(par.kplusp_inelastic_background, -pdg.p, pdg.K_m)>>
          [] pk \in {<<pdg.Delta_p, pdg.K_z>>, <<pdg.Delta_z, pdg.K_p>>} ->
               <<Back(par.kplusn_inelastic_background, pdg.n, pdg.K_p),
                 Back(par.kplusp_inelastic_background, pdg.p, pdg.K_z)>>
          [] pk \in {<<-pdg.Delta_p, pdg.Kbar_z>>, <<-pdg.Delta_z, pdg.K_m>>} ->
               <<Back(par.kplusn_inelastic_background, -pdg.n, pdg.K_m),
                 Back(par.kplusp_inelastic_background, -pdg.p, pdg.Kbar_z)>>
          [] pk \in {<<pdg.Delta_z, pdg.K_z>>, <<pdg.Delta_m, pdg.K_p>>} ->
               <<Back(par.kplusn_inelastic_background, pdg.n, pdg.K_z)>>
          [] pk \in {<<-pdg.Delta_z, pdg.Kbar_z>>, <<-pdg.Delta_m, pdg.K_m>>} ->
               <<Back(par.kplusn_inelastic_background, -pdg.n, pdg.Kbar_z)>>
          [] OTHER -> <<>>)

deltak_xx(included_2to2) == add_channels(deltak_xx_calls(included_2to2))

\* the add_channel calls of ypi_xx, in source order
ypi_xx_calls(included_2to2) ==
  LET type_hyperon == IF is_hyperon(t1) THEN t1 ELSE t2
      type_pion    == IF is_hyperon(t1) THEN t2 ELSE t1
      s  == s_of(sqrt_s)
      hp == <<type_hyperon, type_pion>>
      \* detailed balance from the backward reaction n_ k_ -> pion hyperon
      Back(sigma, n_, k_) ==
        <<Chan(sigma, TRUE,
               Times(detailed_balance_factor_stable(s, type_hyperon, type_pion, n_, k_),
                     Param(sigma, sqrt_s)),
               n_, k_)>>
  IN  IF "Strangeness_exchange" \notin included_2to2 THEN <<>>
      ELSE (
        CASE hp = <<pdg.Sigma_z, pdg.pi_m>>  -> Back(par.kminusn_piminussigma0, pdg.n, pdg.K_m)
          [] hp = <<-pdg.Sigma_z, pdg.pi_p>> -> Back(par.kminusn_piminussigma0, -pdg.n, pdg.K_p)
          [] hp = <<pdg.Sigma_m, pdg.pi_z>>  -> Back(par.kminusn_pi0sigmaminus, pdg.n, pdg.K_m)
          [] hp = <<-pdg.Sigma_m, pdg.pi_z>> -> Back(par.kminusn_pi0sigmaminus, -pdg.n, pdg.K_p)
          [] hp = <<pdg.Lambda, pdg.pi_m>>   -> Back(par.kminusn_piminuslambda, pdg.n, pdg.K_m)
          [] hp = <<-pdg.Lambda, pdg.pi_p>>  -> Back(par.kminusn_piminuslambda, -pdg.n, pdg.K_p)
          [] hp = <<pdg.Sigma_z, pdg.pi_z>>  -> Back(par.kminusp_pi0sigma0, pdg.p, pdg.K_m)
          [] hp = <<-pdg.Sigma_z, pdg.pi_z>> -> Back(par.kminusp_pi0sigma0, -pdg.p, pdg.K_p)
          [] hp = <<pdg.Sigma_m, pdg.pi_p>>  -> Back(par.kminusp_piplussigmaminus, pdg.p, pdg.K_m)
          [] hp = <<-pdg.Sigma_m, pdg.pi_m>> -> Back(par.kminusp_piplussigmaminus, -pdg.p, pdg.K_p)
          [] hp = <<pdg.Lambda, pdg.pi_z>>   -> Back(par.kminusp_pi0lambda, pdg.p, pdg.K_m)
          [] hp = <<-pdg.Lambda, pdg.pi_z>>  -> Back(par.kminusp_pi0lambda, -pdg.p, pdg.K_p)
          [] hp = <<pdg.Sigma_p, pdg.pi_m>>  -> Back(par.kminusp_piminussigmaplus, pdg.p, pdg.K_m)
          [] hp = <<-pdg.Sigma_p, pdg.pi_p>> -> Back(par.kminusp_piminussigmaplus, -pdg.p, pdg.K_p)
          [] OTHER -> <<>>)

\* ypi_xx with the proton for the neutron in its first case (a variant the
\* conservation laws of the tables are checked against)
ypi_xx_with_wrong_nucleon(included_2to2) ==
  LET type_hyperon == IF is_hyperon(t1) THEN t1 ELSE t2
      type_pion    == IF is_hyperon(t1) THEN t2 ELSE t1
      s  == s_of(sqrt_s)
      hp == <<type_hyperon, type_pion>>
      \* detailed balance from the backward reaction n_ k_ -> pion hyperon
      Back(sigma, n_, k_) ==
        <<Chan(sigma, TRUE,
               Times(detailed_balance_factor_stable(s, type_hyperon, type_pion, n_, k_),
                     Param(sigma, sqrt_s)),
               n_, k_)>>
  IN  IF "Strangeness_exchange" \notin included_2to2 THEN <<>>
      ELSE add_channels(
        CASE hp = <<pdg.Sigma_z, pdg.pi_m>>  -> Back(par.kminusn_piminussigma0, pdg.p, pdg.K_m)
          [] hp = <<-pdg.Sigma_z, pdg.pi_p>> -> Back(par.kminusn_piminussigma0, -pdg.n, pdg.K_p)
          [] hp = <<pdg.Sigma_m, pdg.pi_z>>  -> Back(par.kminusn_pi0sigmaminus, pdg.n, pdg.K_m)
          [] hp = <<-pdg.Sigma_m, pdg.pi_z>> -> Back(par.kminusn_pi0sigmaminus, -pdg.n, pdg.K_p)
          [] hp = <<pdg.Lambda, pdg.pi_m>>   -> Back(par.kminusn_piminuslambda, pdg.n, pdg.K_m)
          [] hp = <<-pdg.Lambda, pdg.pi_p>>  -> Back(par.kminusn_piminuslambda, -pdg.n, pdg.K_p)
          [] hp = <<pdg.Sigma_z, pdg.pi_z>>  -> Back(par.kminusp_pi0sigma0, pdg.p, pdg.K_m)
          [] hp = <<-pdg.Sigma_z, pdg.pi_z>> -> Back(par.kminusp_pi0sigma0, -pdg.p, pdg.K_p)
          [] hp = <<pdg.Sigma_m, pdg.pi_p>>  -> Back(par.kminusp_piplussigmaminus, pdg.p, pdg.K_m)
          [] hp = <<-pdg.Sigma_m, pdg.pi_m>> -> Back(par.kminusp_piplussigmaminus, -pdg.p, pdg.K_p)
          [] hp = <<pdg.Lambda, pdg.pi_z>>   -> Back(par.kminusp_pi0lambda, pdg.p, pdg.K_m)
          [] hp = <<-pdg.Lambda, pdg.pi_z>>  -> Back(par.kminusp_pi0lambda, -pdg.p, pdg.K_p)
          [] hp = <<pdg.Sigma_p, pdg.pi_m>>  -> Back(par.kminusp_piminussigmaplus, pdg.p, pdg.K_m)
          [] hp = <<-pdg.Sigma_p, pdg.pi_p>> -> Back(par.kminusp_piminussigmaplus, -pdg.p, pdg.K_p)
          [] OTHER -> <<>>)

ypi_xx(included_2to2) == add_channels(ypi_xx_calls(included_2to2))

-----------------------------------------------------------------------------
(* Light nuclei *)

\* the filter on produced_nucleus shared by dpi_xx and dn_xx
produces(produced_nucleus, type_nucleus) ==
  /\ produced_nucleus # type_nucleus
  /\ charge(produced_nucleus) = charge(type_nucleus)
  /\ baryon_number(produced_nucleus) = baryon_number(type_nucleus)

dpi_xx(included_2to2) ==
  LET deuteron_pion == (is_deuteron(t1) /\ is_pion(t2)) \/ (is_deuteron(t2) /\ is_pion(t1))
      nuc == IF baryon_number(t1) + baryon_number(t2) > 0
             THEN list_nucleons ELSE list_anti_nucleons
      \* pi d -> N N
      absorption == IF deuteron_pion THEN absorption_loop(nuc) ELSE <<>>
      type_pi      == IF is_pion(t1) THEN t1 ELSE t2
      type_nucleus == IF is_nucleus(t1) THEN t1 ELSE t2
      \* 295.5 + 2.862 / (...) + 0.0672 / tmp^2 - 6.61753 / tmp: positive on
      \* the grid, where tmp is at least 1 MeV
      matrix_element == 296
      PerNucleus(produced_nucleus) ==
        IF ~produces(produced_nucleus, type_nucleus) THEN NoBranch
        ELSE LET spin_factor == (spin(produced_nucleus) + 1) * (spin(type_pi) + 1)
                 xsection ==
                   matrix_element * spin_factor *
                     (IF is_stable(produced_nucleus)
                      THEN pCM(sqrt_s, mass(type_pi), mass(produced_nucleus))
                      ELSE get_integral_piR(produced_nucleus, sqrt_s))
             IN  CollisionBranch(<<type_pi, produced_nucleus>>, xsection,
                                 "TwoToTwo", "two_to_two")
      \* pi d -> pi d' and pi d' -> pi d
      inelastic ==
        IF ((is_deuteron(t1) \/ is_dprime(t1)) /\ is_pion(t2))
             \/ ((is_deuteron(t2) \/ is_dprime(t2)) /\ is_pion(t1))
        THEN Emitted([k \in 1..Len(list_light_nuclei) |-> PerNucleus(list_light_nuclei[k])])
        ELSE <<>>
  IN  absorption \o inelastic

\* dn_xx that takes the first particle for the nucleus whichever it is (a
\* variant the order of the pair is checked against)
dn_xx_nucleus_first(included_2to2) ==
  LET type_N       == t2
      type_nucleus == t1
      tmp == sqrt_s - min_mass_kinematic(type_N) - min_mass_kinematic(type_nucleus)
      \* 79.0474 / tmp^0.7897 + 654.596 * tmp for equal baryon signs, else 681.4
      matrix_element ==
        IF (baryon_number(type_N) < 0) = (baryon_number(type_nucleus) < 0)
        THEN 79 + 655 * tmp
        ELSE 681
      PerNucleus(produced_nucleus) ==
        IF ~produces(produced_nucleus, type_nucleus) THEN NoBranch
        ELSE LET spin_factor == (spin(produced_nucleus) + 1) * (spin(type_N) + 1)
                 xsection ==
                   matrix_element * spin_factor *
                     (IF is_stable(produced_nucleus)
                      THEN pCM(sqrt_s, mass(type_N), mass(produced_nucleus))
                      ELSE get_integral_NR(produced_nucleus, sqrt_s))
             IN  CollisionBranch(<<type_N, produced_nucleus>>, xsection,
                                 "TwoToTwo", "two_to_two")
  IN  Emitted([k \in 1..Len(list_light_nuclei) |-> PerNucleus(list_light_nuclei[k])])

dn_xx(included_2to2) ==
  LET type_N       == IF is_nucleon(t1) THEN t1 ELSE t2
      type_nucleus == IF is_nucleus(t1) THEN t1 ELSE t2
      tmp == sqrt_s - min_mass_kinematic(type_N) - min_mass_kinematic(type_nucleus)
      \* 79.0474 / tmp^0.7897 + 654.596 * tmp for equal baryon signs, else 681.4
      matrix_element ==
        IF (baryon_number(type_N) < 0) = (baryon_number(type_nucleus) < 0)
        THEN 79 + 655 * tmp
        ELSE 681
      PerNucleus(produced_nucleus) ==
        IF ~produces(produced_nucleus, type_nucleus) THEN NoBranch
        ELSE LET spin_factor == (spin(produced_nucleus) + 1) * (spin(type_N) + 1)
                 xsection ==
                   matrix_element * spin_factor *
                     (IF is_stable(produced_nucleus)
                      THEN pCM(sqrt_s, mass(type_N), mass(produced_nucleus))
                      ELSE get_integral_NR(produced_nucleus, sqrt_s))
             IN  CollisionBranch(<<type_N, produced_nucleus>>, xsection,
                                 "TwoToTwo", "two_to_two")
  IN  Emitted([k \in 1..Len(list_light_nuclei) |-> PerNucleus(list_light_nuclei[k])])

two_to_two(included_2to2) ==
  IF is_baryon(t1) /\ is_baryon(t2)
  THEN (IF is_nucleon(t1) /\ is_nucleon(t2)
           /\ antiparticle_sign(t1) = antiparticle_sign(t2)
        THEN nn_xx(included_2to2)
        ELSE bb_xx_except_nn(included_2to2))
  ELSE IF (is_baryon(t1) /\ is_meson(t2)) \/ (is_meson(t1) /\ is_baryon(t2))
  THEN (IF (is_nucleon(t1) /\ is_kaon(t2)) \/ (is_nucleon(t2) /\ is_kaon(t1))
        THEN nk_xx(included_2to2)
        ELSE IF (is_hyperon(t1) /\ is_pion(t2)) \/ (is_hyperon(t2) /\ is_pion(t1))
        THEN ypi_xx(included_2to2)
        ELSE IF (is_Delta(t1) /\ is_kaon(t2)) \/ (is_Delta(t2) /\ is_kaon(t1))
        THEN deltak_xx(included_2to2)
        ELSE <<>>)
  ELSE IF is_nucleus(t1) \/ is_nucleus(t2)
  THEN (IF (is_nucleon(t1) /\ is_nucleus(t2)) \/ (is_nucleon(t2) /\ is_nucleus(t1))
        THEN dn_xx(included_2to2)
        ELSE IF ((is_deuteron(t1) \/ is_dprime(t1)) /\ is_pion(t2))
                  \/ ((is_deuteron(t2) \/ is_dprime(t2)) /\ is_pion(t1))
        THEN dpi_xx(included_2to2)
        ELSE <<>>)
  ELSE <<>>

\* What the table called by two_to_two for a nucleon and a kaon, a hyperon
\* and a pion or a Delta and a kaon evaluates and checks, in the order of
\* the source: the parametrizations called on entry (call 0), then for
\* every add_channel call its threshold check and, once that has passed,
\* its thunk with the parametrization the thunk calls (lines 94-108).
two_to_two_evaluations(included_2to2) ==
  LET Nucleon_Kaon == (is_nucleon(t1) /\ is_kaon(t2)) \/ (is_nucleon(t2) /\ is_kaon(t1))
      Hyperon_Pion == (is_hyperon(t1) /\ is_pion(t2)) \/ (is_hyperon(t2) /\ is_pion(t1))
      Delta_Kaon   == (is_Delta(t1) /\ is_kaon(t2)) \/ (is_Delta(t2) /\ is_kaon(t1))
      on_entry == IF Nucleon_Kaon
                  THEN <<par.kplusp_inelastic_background, par.kplusn_inelastic_background>>
                  ELSE <<>>
      calls == IF Nucleon_Kaon THEN nk_xx_calls(included_2to2)
               ELSE IF Hyperon_Pion THEN ypi_xx_calls(included_2to2)
               ELSE IF Delta_Kaon THEN deltak_xx_calls(included_2to2)
               ELSE <<>>
      Evaluation(k, of) == [at |-> "parametrization", call |-> k, of |-> of, passed |-> TRUE]
      add_channel_steps(k) ==
        LET passed == ~(sqrt_s <= min_mass_spectral(calls[k].a)
                                    + min_mass_spectral(calls[k].b))
        IN  <<[at |-> "threshold", call |-> k, of |-> 0, passed |-> passed]>>
            \o (IF passed /\ calls[k].lazy THEN <<Evaluation(k, calls[k].of)>> ELSE <<>>)
      steps[k \in 0..Len(calls)] ==
        IF k = 0 THEN [i \in 1..Len(on_entry) |-> Evaluation(0, on_entry[i])]
        ELSE steps[k - 1] \o add_channel_steps(k)
  IN  [calls |-> calls, events |-> steps[Len(calls)]]

-----------------------------------------------------------------------------
(* String excitation *)

high_energy ==
  LET s == s_of(sqrt_s)
  IN  IF is_baryon(t1) /\ is_baryon(t2)
      THEN (IF t1 = t2 THEN Param(par.pp_high_energy, s)
            ELSE IF is_antiparticle_of(t1, t2) THEN Param(par.ppbar_high_energy, s)
            ELSE IF antiparticle_sign(t1) * antiparticle_sign(t2) = 1
            THEN Param(par.np_high_energy, s)
            ELSE Param(par.npbar_high_energy, s))
      ELSE IF <<t1, t2>> \in {<<pdg.pi_p, pdg.p>>, <<pdg.p, pdg.pi_p>>,
                              <<pdg.pi_m, pdg.n>>, <<pdg.n, pdg.pi_m>>}
      THEN Param(par.piplusp_high_energy, s)
      ELSE IF <<t1, t2>> \in {<<pdg.pi_m, pdg.p>>, <<pdg.p, pdg.pi_m>>,
                              <<pdg.pi_p, pdg.n>>, <<pdg.n, pdg.pi_p>>}
      THEN Param(par.piminusp_high_energy, s)
      ELSE 0

\* xs_string_hard: zero below its onset, positive above
HardParam(i, x) == Max(0, Table(i, x))

string_hard_cross_section ==
  LET s == s_of(sqrt_s)
  IN  IF is_baryon(t1) /\ is_baryon(t2) THEN HardParam(par.NN_string_hard, s)
      ELSE IF is_baryon(t1) \/ is_baryon(t2) THEN HardParam(par.Npi_string_hard, s)
      ELSE HardParam(par.pipi_string_hard, s)

\* sig_string_all, or the exception of elastic_parametrization()
sig_string_all ==
  LET el == elastic_parametrization
  IN  IF el.throws THEN el ELSE Returned(Max(0, high_energy - el.value))

\* pdgid[i] handed to cross_sections_diffractive
pdgid(c) == IF baryon_number(c) = 1 THEN 2212
            ELSE IF baryon_number(c) = -1 THEN -2212 ELSE 211

\* Lines 1602-1616.  xs is the answer of cross_sections_diffractive.  A
\* double that is k/den is kept as k, with den = single_diffr; a division
\* 0/0 gives NaN, recorded in nan_a (then AX and XB are NaN).
rebalance(S, xs) ==
  LET single_diffr == xs[1] + xs[2]
      diffractive0 == single_diffr + xs[3]
      nondiffractive_all == Max(0, S - diffractive0)
      diffractive == S - nondiffractive_all
      double_diffr == Max(0, diffractive - single_diffr)
      a_num == diffractive - double_diffr
      nan_a == single_diffr = 0
      den == IF nan_a THEN 1 ELSE single_diffr
  IN  [S |-> S, xs |-> xs, den |-> den, nan_a |-> nan_a,
       single_diffr_AX |-> xs[1] * a_num, single_diffr_XB |-> xs[2] * a_num,
       double_diffr |-> double_diffr * den,
       nondiffractive_all |-> nondiffractive_all * den,
       \* the condition of the assert in line 1615
       assertion |-> /\ ~nan_a
                     /\ xs[1] * a_num + xs[2] * a_num + double_diffr * den
                          + nondiffractive_all * den = S * den]

\* the values nondiffractive_all * exp(-hard_xsec / nondiffractive_all) can
\* take in whole units: all of it when hard_xsec is 0, otherwise a part of
\* it; 0 * exp(-x/0) is 0 for x > 0, and NaN for x = 0 (not in this set)
exp_range(nd_all, hard_xsec) ==
  IF hard_xsec = 0 THEN {nd_all} ELSE 0..nd_all

\* Lines 1621-1647: soft/hard split and the cumulative sums, scaled by den
split(r, hard_xsec, soft) ==
  LET nd_all == r.nondiffractive_all \div r.den
      nan_soft == nd_all = 0 /\ hard_xsec = 0
      nondiffractive_soft == soft * r.den
      nondiffractive_hard == r.nondiffractive_all - nondiffractive_soft
      sum1 == r.single_diffr_AX
      sum2 == sum1 + r.single_diffr_XB
      sum3 == sum2 + r.double_diffr
      sum4 == sum3 + nondiffractive_soft
      sum5 == sum4 + nondiffractive_hard
  IN  [hard_xsec |-> hard_xsec, nan_soft |-> nan_soft,
       nondiffractive_soft |-> nondiffractive_soft,
       nondiffractive_hard |-> nondiffractive_hard,
       sig_string_soft |-> r.S * r.den - nondiffractive_hard,
       string_sub_cross_sections_sum |-> <<0, sum1, sum2, sum3, sum4, sum5>>,
       nan_sum |-> r.nan_a \/ nan_soft]

\* Lines 1650-1658: the first bucket i < 4 with sum[i] <= r_xsec < sum[i+1],
\* r_xsec = sum[4] * u / UDen; every comparison with NaN is false.
\* The result is the index 1..4 into StringSoftType, or 0 for None.
select_subproc(sp, u) ==
  LET sum == sp.string_sub_cross_sections_sum
      hit(i) == /\ sum[5] * u >= sum[i] * UDen
                /\ sum[5] * u <  sum[i + 1] * UDen
      hits == {i \in 1..4 : hit(i)}
  IN  IF sp.nan_sum \/ hits = {} THEN 0
      ELSE CHOOSE i \in hits : \A j \in hits : i <= j

-----------------------------------------------------------------------------
(* NN-bar closure *)

\* NNbar_annihilation that ignores the channels already present (a variant
\* the residual is checked against)
NNbar_annihilation_of_total(current_xs) ==
  CollisionBranch(<<pdg.h1, pdg.rho_z>>,
                  Max(0, Param(par.ppbar_total, s_of(sqrt_s))),
                  "TwoToTwo", "NNbar_annihilation")

NNbar_annihilation(current_xs) ==
  LET s == s_of(sqrt_s)
      nnbar_xsec == Max(0, Param(par.ppbar_total, s) - current_xs)
  IN  CollisionBranch(<<pdg.h1, pdg.rho_z>>, nnbar_xsec, "TwoToTwo",
                      "NNbar_annihilation")

\* NNbar_creation without the check of the available energy (a variant the
\* check is checked against)
NNbar_creation_without_energy_check ==
  LET s == s_of(sqrt_s)
      xsection == Times(detailed_balance_factor_RR(sqrt_s, cm_momentum, t1, t2,
                                                   pdg.p, -pdg.p),
                        Max(0, Param(par.ppbar_total, s) - Param(par.ppbar_elastic, s)))
  IN  <<CollisionBranch(<<pdg.p, -pdg.p>>, xsection, "TwoToTwo", "NNbar_creation"),
        CollisionBranch(<<pdg.n, -pdg.n>>, xsection, "TwoToTwo", "NNbar_creation")>>

NNbar_creation ==
  LET s == s_of(sqrt_s)
      pcm == cm_momentum
      type_N == pdg.p
      type_Nbar == -pdg.p
      xsection == Times(detailed_balance_factor_RR(sqrt_s, pcm, t1, t2, type_N, type_Nbar),
                        Max(0, Param(par.ppbar_total, s) - Param(par.ppbar_elastic, s)))
  IN  IF sqrt_s - 2 * mass(type_N) < 0 THEN <<>>
      ELSE <<CollisionBranch(<<type_N, type_Nbar>>, xsection, "TwoToTwo",
                             "NNbar_creation"),
             CollisionBranch(<<pdg.n, -pdg.n>>, xsection, "TwoToTwo",
                             "NNbar_creation")>>

-----------------------------------------------------------------------------
(* decide_string *)

\* include_pythia and the window of the pair, in MeV
include_pythia(both_are_nucleons) ==
  \/ both_are_nucleons
  \/ (is_pion(t1) /\ is_nucleon(t2)) \/ (is_nucleon(t1) /\ is_pion(t2))
mix_scatter_type_energy(both_are_nucleons) ==
  IF both_are_nucleons THEN 4500 ELSE 2700
mix_scatter_type_window_width(both_are_nucleons) ==
  IF both_are_nucleons THEN 500 ELSE 400

\* decide_string drawing before it looks at the energy (a variant the
\* window is checked against)
decide_string_draws_whenever_enabled(strings_switch, both_are_nucleons) ==
  strings_switch /\ include_pythia(both_are_nucleons)

\* whether decide_string reaches its Random::uniform call
decide_string_draws(strings_switch, both_are_nucleons) ==
  LET E0 == mix_scatter_type_energy(both_are_nucleons)
      w  == mix_scatter_type_window_width(both_are_nucleons)
  IN  /\ strings_switch /\ include_pythia(both_are_nucleons)
      /\ ~(sqrt_s > E0 + w)
      /\ sqrt_s > E0 - w

\* decide_string with the probability (sqrt_s - E0 + w) / w, the factor 2
\* forgotten (a variant the window is checked against)
decide_string_without_half(strings_switch, both_are_nucleons, u) ==
  LET E0 == mix_scatter_type_energy(both_are_nucleons)
      w  == mix_scatter_type_window_width(both_are_nucleons)
      enable_pythia == strings_switch /\ include_pythia(both_are_nucleons)
  IN  IF ~enable_pythia THEN FALSE
      ELSE IF sqrt_s > E0 + w THEN TRUE
      ELSE IF sqrt_s > E0 - w
      THEN (sqrt_s - E0 + w) * UDen > u * w
      ELSE FALSE

\* decide_string, with the draw u / UDen it may consume
decide_string(strings_switch, both_are_nucleons, u) ==
  LET E0 == mix_scatter_type_energy(both_are_nucleons)
      w  == mix_scatter_type_window_width(both_are_nucleons)
      enable_pythia == strings_switch /\ include_pythia(both_are_nucleons)
  IN  IF ~enable_pythia THEN FALSE
      ELSE IF sqrt_s > E0 + w THEN TRUE
      ELSE IF sqrt_s > E0 - w
      \* probability_pythia = (sqrt_s - E0 + w) / w / 2 > u / UDen
      THEN (sqrt_s - E0 + w) * UDen > u * 2 * w
      ELSE FALSE

-----------------------------------------------------------------------------
(* Inputs *)

Policy(el, one, incl, cut, strings, nnbar, provider) ==
  [elastic_parameter |-> el, two_to_one_switch |-> one, included_2to2 |-> incl,
   low_snn_cut |-> cut, strings_switch |-> strings, nnbar_treatment |-> nnbar,
   string_process |-> provider]

\* the arguments tried for the pairs studied in detail: every combination
\* below the string regime, and a few configurations with strings
PoliciesFocus ==
  {Policy(el, TRUE, incl, cut, FALSE, nnbar, TRUE) :
     el \in {-1, 0, 3}, incl \in {{}, {"Elastic"}, {"Strangeness_exchange"},
                IncludedReactions \ {"Elastic"}, IncludedReactions}, cut \in {0, 2300},
     nnbar \in {"NoAnnihilation", "Resonances"}}
  \cup
  {Policy(el, TRUE, IncludedReactions, 0, TRUE, nnbar, TRUE) :
     el \in {-1, 3}, nnbar \in {"NoAnnihilation", "Resonances"}}
  \cup
  {Policy(3, FALSE, IncludedReactions \ {"Elastic"}, 0, TRUE, "Strings", FALSE)}

\* the pairs studied in detail
FocusPairs ==
  {<<pdg.p, pdg.p>>, <<pdg.p, pdg.n>>, <<-pdg.p, -pdg.n>>,
   <<pdg.p, -pdg.p>>, <<-pdg.n, pdg.n>>, <<pdg.p, -pdg.n>>,
   <<pdg.pi_p, pdg.p>>, <<pdg.n, pdg.pi_m>>, <<pdg.pi_z, -pdg.p>>,
   <<pdg.K_m, pdg.p>>, <<pdg.rho_z, pdg.h1>>, <<pdg.h1, pdg.rho_z>>,
   <<pdg.n, pdg.decimal_d>>, <<pdg.pi_p, pdg.decimal_d>>}

\* the call is made for two particles that can be at this energy
can_collide(a, b, e) == e > min_mass_kinematic(a) + min_mass_kinematic(b)

NoStr == [stage |-> "none"]

\* no earlier call, no second thread, no test program
NoCall == [pc |-> "none"]

\* generate_collision_list has not run yet
Entered ==
  /\ pc = "start"
  /\ process_list = <<>>
  /\ is_pythia = FALSE
  /\ subproc = NoSubproc
  /\ n_set_subproc = 0
  /\ draws = <<>>
  /\ str = NoStr
  /\ error = NoError

-----------------------------------------------------------------------------
(* generate_collision_list, step by step *)

Init ==
  /\ \/ /\ t1 \in list_all
        /\ t2 \in list_all
        /\ sqrt_s \in {2014, 2814, 4600}
        /\ policy \in {Policy(-1, TRUE, IncludedReactions, 0, TRUE, "Resonances", TRUE),
                      Policy(3, FALSE, IncludedReactions, 2300, FALSE, "Strings", FALSE)}
     \/ /\ \E pair \in FocusPairs : t1 = pair[1] /\ t2 = pair[2]
        \* below the threshold of N Nbar (in reach of rho0 h1 only), the
        \* thresholds of N Nbar, pi d' and N d', the edges and the inside
        \* of both string windows, and beyond
        /\ sqrt_s \in {1000, 1876, 2014, 2300, 2600, 2814, 3100, 3200, 4000, 4600,
                        5000, 5100}
        /\ policy \in PoliciesFocus
     \* every pair of the registry with one reaction of included_2to2 set, and
     \* with one reaction cleared
     \/ /\ t1 \in list_all
        /\ t2 \in list_all
        /\ sqrt_s = 4600
        /\ \E reaction \in IncludedReactions :
             \E incl \in {{reaction}, IncludedReactions \ {reaction}} :
               policy = Policy(-1, TRUE, incl, 0, FALSE, "NoAnnihilation", TRUE)
        /\ profile = 0
  /\ registry = Registry
  /\ can_collide(t1, t2, sqrt_s)
  /\ profile \in 0..(NProfiles - 1)
  /\ Entered
  /\ previous = NoCall
  /\ concurrent = NoCall
  /\ fpe = NoCall
  /\ standalone = NoCall

both_are_nucleons == is_nucleon(t1) /\ is_nucleon(t2)

\* an exception or an abort leaves generate_collision_list without a list
Abort(e) ==
  /\ pc' = "aborted"
  /\ error' = e
  /\ process_list' = <<>>

\* line 147
Decide ==
  /\ pc = "start"
  /\ \E u \in 0..(UDen - 1) :
       /\ is_pythia' = decide_string(policy.strings_switch, both_are_nucleons, u)
       /\ draws' = IF decide_string_draws(policy.strings_switch, both_are_nucleons)
                   THEN Append(draws, u) ELSE draws
  /\ pc' = "elastic"
  /\ UNCHANGED <<inputs, outside, process_list, subproc,
                 n_set_subproc, str, error>>

\* the cutoff with <= in place of < (a variant the boundary is checked
\* against)
reject_at_or_below_cutoff ==
  /\ both_are_nucleons
  /\ antiparticle_sign(t1) = antiparticle_sign(t2)
  /\ sqrt_s <= policy.low_snn_cut

reject_by_nucleon_elastic_cutoff ==
  /\ both_are_nucleons
  /\ antiparticle_sign(t1) = antiparticle_sign(t2)
  /\ sqrt_s < policy.low_snn_cut

\* lines 151-157
Elastic ==
  /\ pc = "elastic"
  /\ LET incl_elastic == "Elastic" \in policy.included_2to2
         branch == elastic(policy.elastic_parameter)
     IN  IF incl_elastic /\ ~reject_by_nucleon_elastic_cutoff
         THEN IF branch.throws
              THEN Abort(branch.error)
              ELSE /\ process_list' = Append(process_list, branch.value)
                   /\ pc' = IF is_pythia THEN "string_excitation" ELSE "two_to_one"
                   /\ error' = error
         ELSE /\ pc' = IF is_pythia THEN "string_excitation" ELSE "two_to_one"
              /\ UNCHANGED <<process_list, error>>
  /\ UNCHANGED <<inputs, outside, is_pythia, subproc,
                 n_set_subproc, draws, str>>

\* lines 162-165
TwoToOne ==
  /\ pc = "two_to_one"
  /\ process_list' = IF policy.two_to_one_switch
                     THEN append_list(process_list, two_to_one)
                     ELSE process_list
  /\ pc' = "two_to_two"
  /\ UNCHANGED <<inputs, outside, is_pythia, subproc,
                 n_set_subproc, draws, str, error>>

\* lines 166-169 with the Elastic bit not counted (a variant the condition
\* of two_to_two() is checked against)
TwoToTwo_for_inelastic_bits ==
  /\ pc = "two_to_two"
  /\ process_list' = IF policy.included_2to2 \ {"Elastic"} # {}
                     THEN append_list(process_list, two_to_two(policy.included_2to2))
                     ELSE process_list
  /\ pc' = "nnbar"
  /\ UNCHANGED <<inputs, outside, is_pythia, subproc,
                 n_set_subproc, draws, str, error>>

\* lines 166-169
TwoToTwo ==
  /\ pc = "two_to_two"
  /\ process_list' = IF policy.included_2to2 # {}
                     THEN append_list(process_list, two_to_two(policy.included_2to2))
                     ELSE process_list
  /\ pc' = "nnbar"
  /\ UNCHANGED <<inputs, outside, is_pythia, subproc,
                 n_set_subproc, draws, str, error>>

\* string_excitation up to and including set_subproc (lines 1565-1663).
\* The assert of line 1615 is compiled in or out (NDEBUG).
StringExcitation ==
  /\ pc = "string_excitation"
  /\ LET S == sig_string_all
     IN  IF S.throws THEN
           /\ Abort(S.error)
           /\ UNCHANGED <<subproc, n_set_subproc, draws, str>>
         ELSE IF ~(S.value > 0) THEN
           /\ pc' = "nnbar"
           /\ UNCHANGED <<process_list, error, subproc, n_set_subproc, draws, str>>
         ELSE IF ~policy.string_process THEN
           /\ Abort([what |-> "string_process should be initialized."])
           /\ UNCHANGED <<subproc, n_set_subproc, draws, str>>
         ELSE
           \E xs \in (0..MaxDiffr) \X (0..MaxDiffr) \X (0..MaxDiffr), u \in 0..(UDen - 1), ndebug \in BOOLEAN :
             LET r == rebalance(S.value, xs)
                 hard_xsec == string_hard_cross_section
             IN  \E soft \in exp_range(r.nondiffractive_all \div r.den, hard_xsec) :
                   LET sp == split(r, hard_xsec, soft)
                       iproc == select_subproc(sp, u)
                       locals == [stage |-> "rebalanced", pdgid |-> <<pdgid(t1), pdgid(t2)>>,
                                  r |-> r, sp |-> sp]
                   IN  IF ~r.assertion /\ ~ndebug THEN
                         /\ Abort([what |-> "Assertion failed"])
                         /\ str' = locals
                         /\ UNCHANGED <<subproc, n_set_subproc, draws>>
                       ELSE IF iproc = 0 THEN
                         /\ Abort([what |-> "soft string subprocess is not specified."])
                         /\ str' = locals
                         /\ draws' = Append(draws, u)
                         /\ UNCHANGED <<subproc, n_set_subproc>>
                       ELSE
                         /\ subproc' = StringSoftType[iproc]
                         /\ n_set_subproc' = n_set_subproc + 1
                         /\ draws' = Append(draws, u)
                         /\ str' = locals
                         /\ pc' = "string_emit"
                         /\ UNCHANGED <<process_list, error>>
  /\ UNCHANGED <<inputs, outside, is_pythia>>

\* the string branches emitted and the resonance channels run after them (a
\* variant the exclusion of the two regimes is checked against)
StringEmit_then_resonances ==
  /\ pc = "string_emit"
  /\ LET sig_string_soft == str.sp.sig_string_soft \div str.r.den
         nondiffractive_hard == str.sp.nondiffractive_hard \div str.r.den
         soft_branch == IF sig_string_soft > 0
                        THEN <<CollisionBranch(<<>>, sig_string_soft, "StringSoft",
                                               "string_excitation")>>
                        ELSE <<>>
         hard_branch == IF nondiffractive_hard > 0
                        THEN <<CollisionBranch(<<>>, nondiffractive_hard, "StringHard",
                                               "string_excitation")>>
                        ELSE <<>>
     IN  process_list' = append_list(process_list, soft_branch \o hard_branch)
  /\ pc' = "two_to_one"
  /\ UNCHANGED <<inputs, outside, is_pythia, subproc,
                 n_set_subproc, draws, str, error>>

\* lines 1665-1675 and the append_list of line 160; the weights are whole
\* numbers of units (den divides them)
StringEmit ==
  /\ pc = "string_emit"
  /\ LET sig_string_soft == str.sp.sig_string_soft \div str.r.den
         nondiffractive_hard == str.sp.nondiffractive_hard \div str.r.den
         soft_branch == IF sig_string_soft > 0
                        THEN <<CollisionBranch(<<>>, sig_string_soft, "StringSoft",
                                               "string_excitation")>>
                        ELSE <<>>
         hard_branch == IF nondiffractive_hard > 0
                        THEN <<CollisionBranch(<<>>, nondiffractive_hard, "StringHard",
                                               "string_excitation")>>
                        ELSE <<>>
     IN  process_list' = append_list(process_list, soft_branch \o hard_branch)
  /\ pc' = "nnbar"
  /\ UNCHANGED <<inputs, outside, is_pythia, subproc,
                 n_set_subproc, draws, str, error>>

\* lines 174-185
NNbarClosure ==
  /\ pc = "nnbar"
  /\ LET with_annihilation ==
           IF is_nucleon(t1) /\ t2 = get_antiparticle(t1)
           THEN Append(process_list, NNbar_annihilation(sum_xs_of(process_list)))
           ELSE process_list
         with_creation ==
           IF <<t1, t2>> \in {<<pdg.rho_z, pdg.h1>>, <<pdg.h1, pdg.rho_z>>}
           THEN append_list(with_annihilation, NNbar_creation)
           ELSE with_annihilation
     IN  process_list' = IF policy.nnbar_treatment = "Resonances"
                         THEN with_creation ELSE process_list
  /\ pc' = "done"
  /\ UNCHANGED <<inputs, outside, is_pythia, subproc,
                 n_set_subproc, draws, str, error>>

Next ==
  \/ Decide
  \/ Elastic
  \/ StringExcitation
  \/ StringEmit
  \/ TwoToOne
  \/ TwoToTwo
  \/ NNbarClosure

Spec == Init /\ [][Next]_vars

-----------------------------------------------------------------------------
(* Two calls in a row: generate_collision_list for a pair, then for a
   related pair at the same sqrt_s, policy and parametrizations *)

\* The pairs studied in detail and the pairs with strangeness, in the
\* resonance regime with both kinds of elastic cross section; every pair of
\* the registry in one configuration of the resonance regime; and pi+ p
\* above the string window, with strings.
InitTwoCalls ==
  /\ \/ /\ \/ \E pair \in FocusPairs : t1 = pair[1] /\ t2 = pair[2]
           \/ /\ t1 \in list_all
              /\ t2 \in list_all
              /\ \/ /\ Family(BaseOf(t1)) = "K"
                    /\ Family(BaseOf(t2)) \in {"N", "Delta"}
                 \/ /\ Family(BaseOf(t1)) = "pi"
                    /\ Family(BaseOf(t2)) \in {"Lambda", "Sigma"}
        /\ sqrt_s \in {1450, 1600, 2014, 2300, 2814, 3100, 3200, 4600, 5100}
        /\ \E el \in {-1, 3} :
             policy = Policy(el, TRUE, IncludedReactions, 0, FALSE, "Resonances", TRUE)
     \/ /\ t1 \in list_all
        /\ t2 \in list_all
        /\ sqrt_s \in {2014, 2814, 4600}
        /\ policy = Policy(-1, TRUE, IncludedReactions, 0, FALSE, "Resonances", TRUE)
     \/ /\ t1 = pdg.pi_p
        /\ t2 = pdg.p
        /\ sqrt_s \in {3200, 5100}
        /\ policy = Policy(3, TRUE, IncludedReactions, 0, TRUE, "Resonances", TRUE)
  /\ registry = Registry
  /\ can_collide(t1, t2, sqrt_s)
  /\ profile \in 0..(NProfiles - 1)
  /\ Entered
  /\ previous = NoCall
  /\ concurrent = NoCall
  /\ fpe = NoCall
  /\ standalone = NoCall

\* the first call is over; what it gave is kept, and a cross_sections object
\* for the pair (a, b) is constructed and asked for its list
CallAgain(relation, k, a, b) ==
  /\ pc \in {"done", "aborted"}
  /\ previous = NoCall
  /\ can_collide(a, b, sqrt_s)
  /\ previous' = [pc |-> pc, relation |-> relation, branch |-> k,
                  t1 |-> t1, t2 |-> t2,
                  process_list |-> process_list, is_pythia |-> is_pythia,
                  subproc |-> subproc, draws |-> draws, str |-> str,
                  error |-> error]
  /\ t1' = a
  /\ t2' = b
  /\ pc' = "start"
  /\ process_list' = <<>>
  /\ is_pythia' = FALSE
  /\ subproc' = NoSubproc
  /\ n_set_subproc' = 0
  /\ draws' = <<>>
  /\ str' = NoStr
  /\ error' = NoError
  /\ UNCHANGED <<sqrt_s, policy, profile, registry, concurrent, fpe, standalone>>

\* the second call is for the charge-conjugated pair
CallConjugated == CallAgain("conjugated", 0, get_antiparticle(t1), get_antiparticle(t2))

\* the second call is for the same pair in the other order
CallSwapped == CallAgain("swapped", 0, t2, t1)

\* the second call is for the two products of branch k of the returned
\* list, in either order
CallOnProducts ==
  \E k \in 1..Len(process_list) :
    /\ Len(process_list[k].products) = 2
    /\ \/ CallAgain("products", k, process_list[k].products[1], process_list[k].products[2])
       \/ CallAgain("products", k, process_list[k].products[2], process_list[k].products[1])

NextTwoCalls ==
  \/ Next
  \/ CallConjugated
  \/ CallSwapped
  \/ CallOnProducts

SpecTwoCalls == InitTwoCalls /\ [][NextTwoCalls]_vars

-----------------------------------------------------------------------------
(* Two calls at the same time: a second cross_sections object, for another
   pair, runs generate_collision_list on another thread and was handed the
   same string provider.  What the second call does to its own list is out
   of reach of the first; its steps on what the two share are these. *)

InitConcurrent ==
  /\ \E pair \in {<<pdg.p, pdg.p>>, <<pdg.pi_p, pdg.p>>, <<pdg.n, pdg.pi_m>>} :
       t1 = pair[1] /\ t2 = pair[2]
  /\ sqrt_s \in {2814, 3200, 4600, 5100}
  /\ policy = Policy(3, TRUE, IncludedReactions, 0, TRUE, "Resonances", TRUE)
  /\ registry = Registry
  /\ can_collide(t1, t2, sqrt_s)
  /\ profile \in 0..(NProfiles - 1)
  /\ Entered
  /\ previous = NoCall
  /\ concurrent = [pc |-> "string_excitation"]
  /\ fpe = NoCall
  /\ standalone = NoCall

\* lines 1650-1663 in the second call: it selects the soft subprocess of its
\* own collision and records it on the string provider
ConcurrentSetSubproc ==
  /\ concurrent.pc = "string_excitation"
  /\ \E iproc \in 1..4 :
       /\ subproc' = StringSoftType[iproc]
       /\ concurrent' = [pc |-> "string_emit", subproc |-> StringSoftType[iproc]]
  /\ UNCHANGED <<inputs, pc, process_list, is_pythia, n_set_subproc, draws,
                 str, error, previous, fpe, standalone>>

\* lines 1665-1676 and 174-186 in the second call: it returns its list
ConcurrentReturn ==
  /\ concurrent.pc = "string_emit"
  /\ concurrent' = [pc |-> "done", subproc |-> concurrent.subproc]
  /\ UNCHANGED <<inputs, pc, process_list, is_pythia, subproc, n_set_subproc,
                 draws, str, error, previous, fpe, standalone>>

NextConcurrent ==
  \/ Next
  \/ ConcurrentSetSubproc
  \/ ConcurrentReturn

SpecConcurrent == InitConcurrent /\ [][NextConcurrent]_vars

-----------------------------------------------------------------------------
(* tests/enable_float_traps.cc: the test program of enable_float_traps.
   fpe.flags are the floating-point status flags that are raised, fpe.traps
   the exceptions that trap, fpe.handler the handler installed for SIGFPE. *)

\* enable_float_traps(mask): the exceptions of mask trap from now on
enable_float_traps(traps, mask) == traps \cup mask

\* a handler that returns (a variant the longjmp is checked against)
handle_fpe_and_return(s) == "return"

\* handle_fpe(s): leaves the handler by longjmp for SIGFPE, returns otherwise
handle_fpe(s) == IF s = "SIGFPE" THEN "longjmp" ELSE "return"

\* do_division(x) with divisor = 0: the division x / divisor raises
\* FE_DIVBYZERO for x # 0.  When the exception traps, SIGFPE goes to the
\* handler; its longjmp makes setjmp return 1 and do_division throws.  A
\* handler that returns resumes the program after a trap, which is undefined:
\* the division is taken again, or the program goes on after it.  When the
\* exception does not trap, the flag is raised and do_division returns.
do_division(x, traps, handler) ==
  IF x = 0 THEN {[how |-> "returns", raised |-> {"FE_INVALID"} \ traps]}
  ELSE IF "FE_DIVBYZERO" \notin traps
  THEN {[how |-> "returns", raised |-> {"FE_DIVBYZERO"}]}
  ELSE IF handler = "SIG_DFL"
  THEN {[how |-> "killed", raised |-> {}]}
  ELSE IF handle_fpe("SIGFPE") = "longjmp"
  THEN {[how |-> "throws", raised |-> {}]}
  ELSE {[how |-> "hangs", raised |-> {}], [how |-> "returns", raised |-> {}]}

\* the process starts in the default floating-point environment: nothing
\* traps, FE_DIVBYZERO is not raised; what ran before the test may have
\* raised other flags.  generate_collision_list is not called.
InitFloatTraps ==
  /\ t1 = pdg.p
  /\ t2 = pdg.p
  /\ sqrt_s = 2014
  /\ policy = Policy(3, TRUE, IncludedReactions, 0, FALSE, "NoAnnihilation", FALSE)
  /\ registry = Registry
  /\ profile = 0
  /\ pc = "none"
  /\ process_list = <<>>
  /\ is_pythia = FALSE
  /\ subproc = NoSubproc
  /\ n_set_subproc = 0
  /\ draws = <<>>
  /\ str = NoStr
  /\ error = NoError
  /\ previous = NoCall
  /\ concurrent = NoCall
  /\ standalone = NoCall
  /\ \E raised \in SUBSET {"FE_INEXACT", "FE_INVALID", "FE_OVERFLOW", "FE_UNDERFLOW"} :
       fpe = [pc |-> "signal", flags |-> raised, traps |-> {}, handler |-> "SIG_DFL",
              got_exception |-> FALSE, after_division |-> FALSE, failed |-> FALSE]

\* line 47: std::signal(SIGFPE, &handle_fpe)
TestSignal ==
  /\ fpe.pc = "signal"
  /\ fpe' = [fpe EXCEPT !.handler = "handle_fpe", !.pc = "verify_before"]
  /\ UNCHANGED <<inputs, pc, process_list, is_pythia, subproc, n_set_subproc,
                 draws, str, error, previous, concurrent,
                 standalone>>

\* lines 49, 51 and 61: VERIFY(!std::fetestexcept(FE_DIVBYZERO)); a failed
\* VERIFY ends the test
TestVerifyFlag ==
  /\ fpe.pc \in {"verify_before", "verify_enabled", "verify_trapped"}
  /\ fpe' = IF "FE_DIVBYZERO" \in fpe.flags
            THEN [fpe EXCEPT !.failed = TRUE, !.pc = "failed"]
            ELSE [fpe EXCEPT !.pc = CASE fpe.pc = "verify_before" -> "enable"
                                      [] fpe.pc = "verify_enabled" -> "division"
                                      [] fpe.pc = "verify_trapped" -> "verify_exception"]
  /\ UNCHANGED <<inputs, pc, process_list, is_pythia, subproc, n_set_subproc,
                 draws, str, error, previous, concurrent,
                 standalone>>

\* line 50: Smash::enable_float_traps(FE_DIVBYZERO)
TestEnableTraps ==
  /\ fpe.pc = "enable"
  /\ fpe' = [fpe EXCEPT !.traps = enable_float_traps(fpe.traps, {"FE_DIVBYZERO"}),
                        !.pc = "verify_enabled"]
  /\ UNCHANGED <<inputs, pc, process_list, is_pythia, subproc, n_set_subproc,
                 draws, str, error, previous, concurrent,
                 standalone>>

\* lines 53-60: do_division(3.f) inside try; FAIL() after it; the catch
TestDivision ==
  /\ fpe.pc = "division"
  /\ \E out \in do_division(3, fpe.traps, fpe.handler) :
       fpe' = CASE out.how = "throws" ->
                     [fpe EXCEPT !.got_exception = TRUE, !.pc = "verify_trapped"]
                [] out.how = "returns" ->
                     [fpe EXCEPT !.flags = fpe.flags \cup out.raised,
                                 !.after_division = TRUE,
                                 !.failed = TRUE, !.pc = "failed"]
                [] out.how = "killed" -> [fpe EXCEPT !.pc = "killed"]
                [] out.how = "hangs" -> [fpe EXCEPT !.pc = "hangs"]
  /\ UNCHANGED <<inputs, pc, process_list, is_pythia, subproc, n_set_subproc,
                 draws, str, error, previous, concurrent,
                 standalone>>

\* line 63: VERIFY(got_exception)
TestVerifyException ==
  /\ fpe.pc = "verify_exception"
  /\ fpe' = IF fpe.got_exception
            THEN [fpe EXCEPT !.pc = "passed"]
            ELSE [fpe EXCEPT !.failed = TRUE, !.pc = "failed"]
  /\ UNCHANGED <<inputs, pc, process_list, is_pythia, subproc, n_set_subproc,
                 draws, str, error, previous, concurrent,
                 standalone>>

NextFloatTraps ==
  \/ TestSignal
  \/ TestVerifyFlag
  \/ TestEnableTraps
  \/ TestDivision
  \/ TestVerifyException

SpecFloatTraps == InitFloatTraps /\ [][NextFloatTraps]_vars


-----------------------------------------------------------------------------
(* nn_to_resonance_matrix_element called on its own, for two types of a
   registry that also holds N(1440)+ and Delta(1620)+ and their antiparticles,
   and then with the two types exchanged *)

InitMatrixElement ==
  /\ registry = Registry @@
       [c \in {12212, -12212, 2122, -2122} |->
          LET star == IF Abs(c) = 12212 THEN "Nstar" ELSE "Deltastar"
              sign == IF c < 0 THEN -1 ELSE 1
          IN  [charge |-> sign, baryon_number |-> sign, strangeness |-> 0,
               isospin |-> IF star = "Nstar" THEN 1 ELSE 3, isospin3 |-> sign,
               spin |-> 1, mass |-> IF star = "Nstar" THEN 1440 ELSE 1620,
               min_mass_kinematic |-> 1076, min_mass_spectral |-> 1076,
               width_at_pole |-> IF star = "Nstar" THEN 350 ELSE 130,
               family |-> star, iso_multiplet |-> <<star, sign>>]]
  /\ t1 \in DOMAIN registry
  /\ t2 \in DOMAIN registry
  /\ sqrt_s \in {1900, 2000, 2100, 5013, 5014, 5923, 5924, 7074}
  /\ standalone \in {[pc |-> "nn_to_resonance_matrix_element", twoI |-> twoI] :
                       twoI \in {0, 1, 2, 4}}
  /\ policy = Policy(3, TRUE, IncludedReactions, 0, FALSE, "NoAnnihilation", FALSE)
  /\ profile = 0
  /\ pc = "none"
  /\ process_list = <<>>
  /\ is_pythia = FALSE
  /\ subproc = NoSubproc
  /\ n_set_subproc = 0
  /\ draws = <<>>
  /\ str = NoStr
  /\ error = NoError
  /\ previous = NoCall
  /\ concurrent = NoCall
  /\ fpe = NoCall

\* nn_to_resonance_matrix_element(sqrt_s, t1, t2, twoI)
MatrixElement ==
  /\ standalone.pc = "nn_to_resonance_matrix_element"
  /\ standalone' =
       [pc |-> "exchanged", twoI |-> standalone.twoI,
        value |-> nn_to_resonance_matrix_element(sqrt_s, t1, t2, standalone.twoI)]
  /\ UNCHANGED <<inputs, pc, process_list, is_pythia, subproc, n_set_subproc,
                 draws, str, error, previous, concurrent, fpe>>

\* nn_to_resonance_matrix_element(sqrt_s, t2, t1, twoI)
MatrixElementExchanged ==
  /\ standalone.pc = "exchanged"
  /\ standalone' =
       [pc |-> "returned", twoI |-> standalone.twoI, value |-> standalone.value,
        exchanged |-> nn_to_resonance_matrix_element(sqrt_s, t2, t1, standalone.twoI)]
  /\ UNCHANGED <<inputs, pc, process_list, is_pythia, subproc, n_set_subproc,
                 draws, str, error, previous, concurrent, fpe>>

NextMatrixElement == MatrixElement \/ MatrixElementExchanged

SpecMatrixElement == InitMatrixElement /\ [][NextMatrixElement]_vars

-----------------------------------------------------------------------------
(* sample_momenta called on its own. Temperature, mass and energies are
   integers of one unit; densities are in units of 4 pi. *)

\* exp(-energy / temperature) is taken on a scale where it is 1 from 50 T
\* on: positive and decreasing
density_integrand(energy, momentum_sqr, temperature) ==
  LET exp == IF energy >= 50 * temperature THEN 1
             ELSE 1 + (50 * temperature - energy) \div temperature
  IN  momentum_sqr * exp

\* Random::uniform(min, max): min + (max - min) * u for the k-th of UDen
\* equally spaced u of [0, 1); k = 0 is the draw of min itself
uniform(min, max, k) == min + ((max - min) * k) \div UDen

InitSampleMomenta ==
  /\ standalone \in {[pc |-> "sample_momenta", temperature |-> T, mass |-> m] :
                       T \in {1, 2, 3}, m \in {0, 20, 50, 100, 120, 160}}
  /\ registry = Registry
  /\ t1 = pdg.p
  /\ t2 = pdg.p
  /\ sqrt_s = 2014
  /\ policy = Policy(3, TRUE, IncludedReactions, 0, FALSE, "NoAnnihilation", FALSE)
  /\ profile = 0
  /\ pc = "none"
  /\ process_list = <<>>
  /\ is_pythia = FALSE
  /\ subproc = NoSubproc
  /\ n_set_subproc = 0
  /\ draws = <<>>
  /\ str = NoStr
  /\ error = NoError
  /\ previous = NoCall
  /\ concurrent = NoCall
  /\ fpe = NoCall

\* lines 47-58. K1(x) / K2(x) is taken as x / (x + 2), which has its limits
\* x / 2 at 0 and 1 at infinity. At mass 0 both Bessel functions are asked
\* at 0, outside their domain: the GSL error handler aborts, or, switched
\* off, lets them return NaN, and the ceiling of the rejection is NaN.
SampleMomentaEnter ==
  /\ standalone.pc = "sample_momenta"
  /\ LET temperature == standalone.temperature
         m == standalone.mass
         energy_average == 3 * temperature + (m * m) \div (m + 2 * temperature)
         momentum_average_sqr == (energy_average - m) * (energy_average + m)
         Loop(nan, probability_max) ==
           [pc |-> "do", temperature |-> temperature, mass |-> m,
            energy_min |-> m, energy_max |-> 50 * temperature,
            probability_max_is_nan |-> nan, probability_max |-> probability_max,
            iterations |-> 0, energy |-> 0, momentum_radial_sqr |-> 0]
     IN  IF m = 0
         THEN \/ standalone' = [pc |-> "aborted", temperature |-> temperature,
                                mass |-> m]
              \/ standalone' = Loop(TRUE, 0)
         ELSE standalone' =
                Loop(FALSE, 2 * density_integrand(energy_average, momentum_average_sqr,
                                                  temperature))
  /\ UNCHANGED <<inputs, pc, process_list, is_pythia, subproc, n_set_subproc,
                 draws, str, error, previous, concurrent, fpe>>

\* one turn of the do-while loop of lines 63-67 and, when the loop is left,
\* the return of line 69. ke and kp are the two draws. A comparison with
\* NaN is false, which leaves the loop. The turns are counted up to 2.
SampleMomentaIteration(ke, kp) ==
  /\ standalone.pc = "do"
  /\ LET energy == uniform(standalone.energy_min, standalone.energy_max, ke)
         momentum_radial_sqr == (energy - standalone.mass) * (energy + standalone.mass)
         probability == density_integrand(energy, momentum_radial_sqr,
                                          standalone.temperature)
         again == /\ ~standalone.probability_max_is_nan
                  /\ uniform(0, standalone.probability_max, kp) > probability
         sqrt == CHOOSE r \in 0..Max(momentum_radial_sqr, 0) :
                   r * r <= Max(momentum_radial_sqr, 0)
                     /\ Max(momentum_radial_sqr, 0) < (r + 1) * (r + 1)
         turn == [standalone EXCEPT !.energy = energy,
                                    !.momentum_radial_sqr = momentum_radial_sqr,
                                    !.iterations = IF @ < 2 THEN @ + 1 ELSE @]
     IN  IF again
         THEN standalone' = turn
         ELSE standalone' = [turn EXCEPT !.pc = "returned"] @@
                            [value |-> sqrt, value_is_nan |-> momentum_radial_sqr < 0]
  /\ UNCHANGED <<inputs, pc, process_list, is_pythia, subproc, n_set_subproc,
                 draws, str, error, previous, concurrent, fpe>>

NextSampleMomenta ==
  \/ SampleMomentaEnter
  \/ \E ke \in 0..(UDen - 1), kp \in 0..(UDen - 1) : SampleMomentaIteration(ke, kp)

SpecSampleMomenta == InitSampleMomenta /\ [][NextSampleMomenta]_vars

\* Fair random draws: the routine goes on, and a pair of draws inside the
\* two ranges that is possible again and again comes up. The draw of the
\* lower end of a range itself (k = 0) has probability zero.
FairSampleMomenta ==
  /\ SpecSampleMomenta
  /\ WF_vars(NextSampleMomenta)
  /\ \A ke \in 1..(UDen - 1), kp \in 1..(UDen - 1) :
        SF_vars(SampleMomentaIteration(ke, kp)
                  /\ standalone'.pc # standalone.pc)

-----------------------------------------------------------------------------
(* HadronGasEos::mus_net_strangeness0 called on its own. Chemical potentials
   are integers of a unit in which mub + T is 2^30, so that thirty halvings
   of [0, mub + T] are exact. *)

max_iteration == 30

\* The net strangeness density of the gas: 0 below really_small, and else
\* rising with mus through zero where the strange and the antistrange
\* particles balance. The place of the zero is standalone.zero, in halves of
\* the unit; the density is in the unit of the tolerance.
net_strange_density(T, mub, mus) ==
  IF T < really_small THEN 0 ELSE 2 * mus - standalone.zero

\* a cold and a warm gas, the zero at a point the bisection meets at its
\* 1st, 2nd, 28th, 29th or 30th turn, between two such points, or outside
\* [0, mub + T]
InitMusNetStrangeness0 ==
  /\ \E T \in {0, 268435456},
        zero \in {1073741824, 536870912, 1610612736, 8, 4, 3, 2, 1, -5,
                  2147483646, 2147483647},
        tolerance \in {0, 1} :
        standalone = [pc |-> "mus_net_strangeness0", T |-> T, mub |-> 1073741824 - T,
                      zero |-> zero, tolerance |-> tolerance,
                      mus_u |-> 1073741824, mus_l |-> 0, mus |-> 0, rhos |-> 0,
                      iteration |-> 0]
  /\ registry = Registry
  /\ t1 = pdg.p
  /\ t2 = pdg.p
  /\ sqrt_s = 2014
  /\ policy = Policy(3, TRUE, IncludedReactions, 0, FALSE, "NoAnnihilation", FALSE)
  /\ profile = 0
  /\ pc = "none"
  /\ process_list = <<>>
  /\ is_pythia = FALSE
  /\ subproc = NoSubproc
  /\ n_set_subproc = 0
  /\ draws = <<>>
  /\ str = NoStr
  /\ error = NoError
  /\ previous = NoCall
  /\ concurrent = NoCall
  /\ fpe = NoCall

\* one turn of the do-while loop of lines 281-290 and, when the loop is
\* left, lines 291-294
MusIteration ==
  /\ standalone.pc = "mus_net_strangeness0"
  /\ LET mus == (standalone.mus_u + standalone.mus_l) \div 2
         rhos == net_strange_density(standalone.T, standalone.mub, mus)
         iteration == standalone.iteration + 1
         turn == [standalone EXCEPT !.mus = mus, !.rhos = rhos,
                                    !.mus_u = IF rhos > 0 THEN mus ELSE @,
                                    !.mus_l = IF rhos > 0 THEN @ ELSE mus,
                                    !.iteration = iteration]
     IN  IF Abs(rhos) > standalone.tolerance /\ iteration < max_iteration
         THEN standalone' = turn
         ELSE IF iteration = max_iteration
         THEN standalone' = [turn EXCEPT !.pc = "thrown"] @@
                [what |-> "Solving rho_s = 0: too many iterations."]
         ELSE standalone' = [turn EXCEPT !.pc = "returned"] @@ [value |-> mus]
  /\ UNCHANGED <<inputs, pc, process_list, is_pythia, subproc, n_set_subproc,
                 draws, str, error, previous, concurrent, fpe>>

NextMusNetStrangeness0 == MusIteration

SpecMusNetStrangeness0 == InitMusNetStrangeness0 /\ [][NextMusNetStrangeness0]_vars

-----------------------------------------------------------------------------
(* Properties of the returned list *)

\* the call has returned its list
Returned_list == pc = "done"

Branches == 1..Len(process_list)

\* the charge and the baryon number of the products of a branch
ProductCharge(products) ==
  IF Len(products) = 1 THEN charge(products[1])
  ELSE charge(products[1]) + charge(products[2])
ProductBaryonNumber(products) ==
  IF Len(products) = 1 THEN baryon_number(products[1])
  ELSE baryon_number(products[1]) + baryon_number(products[2])

\* C1: every branch with products, at every step of the construction and
\* in the returned list, has product charges summing to the charge of the
\* incoming pair and product baryon numbers summing to its baryon number.
C1_ChargeAndBaryonNumberConserved ==
  \A k \in Branches :
    LET b == process_list[k]
    IN  Len(b.products) > 0 =>
          /\ ProductCharge(b.products) = charge(t1) + charge(t2)
          /\ ProductBaryonNumber(b.products)
               = baryon_number(t1) + baryon_number(t2)

\* C1 witness: a returned list holding a 2->1 branch and a 2->2 branch
\* whose products differ from the incoming pair.
C1_Witness ==
  /\ Returned_list
  /\ \E k \in Branches : process_list[k].type = "TwoToOne"
  /\ \E k \in Branches : /\ process_list[k].type = "TwoToTwo"
                         /\ process_list[k].products # <<t1, t2>>
                         /\ process_list[k].products # <<t2, t1>>

\* the branch N Nbar -> h1(1170) rho0
IsAnnihilationBranch(b) ==
  b.type = "TwoToTwo" /\ b.products = <<pdg.h1, pdg.rho_z>>

\* a nucleon and its own antiparticle, in either order
NucleonAndOwnAntiparticle ==
  Abs(t1) \in {pdg.p, pdg.n} /\ t2 = -t1

\* C2: with nnbar_treatment = Resonances and a nucleon with its own
\* antiparticle the returned list ends with exactly one annihilation branch
\* (h1, rho0), after every other branch; its weight is
\* max(0, ppbar_total(s) - sum of the weights before it), so the total is
\* max(ppbar_total(s), sum of the others).  For every other pair or
\* treatment the returned list holds no annihilation branch.
C2_AnnihilationIsTheResidual ==
  Returned_list =>
    LET annihilations == {k \in Branches : IsAnnihilationBranch(process_list[k])}
        n == Len(process_list)
        total == Param(par.ppbar_total, sqrt_s * sqrt_s)
    IN  IF policy.nnbar_treatment = "Resonances" /\ NucleonAndOwnAntiparticle
        THEN /\ annihilations = {n}
             /\ n >= 1
             /\ process_list[n].weight
                  = Max(0, total - SumWeights(process_list, n - 1))
             /\ SumWeights(process_list, n)
                  = Max(total, SumWeights(process_list, n - 1))
        ELSE annihilations = {}

\* C2 witness: a returned list of a nucleon and its antiparticle in which
\* other branches of positive weight precede a positive residual.
C2_Witness ==
  /\ Returned_list
  /\ policy.nnbar_treatment = "Resonances" /\ NucleonAndOwnAntiparticle
  /\ Len(process_list) >= 3
  /\ SumWeights(process_list, Len(process_list) - 1) > 0
  /\ process_list[Len(process_list)].weight > 0
  /\ IsAnnihilationBranch(process_list[Len(process_list)])

\* C3: a returned list holds an Elastic branch iff the Elastic bit is set
\* and it is not the case that both particles are nucleons of equal
\* antiparticle sign with sqrt_s < low_snn_cut; then it holds exactly one,
\* with the two incoming types as products (so at sqrt_s = low_snn_cut the
\* branch is there).
C3_ElasticBranchIffIncludedAndNotCut ==
  Returned_list =>
    LET elastics == {k \in Branches : process_list[k].type = "Elastic"}
        same_sign_nucleons ==
          /\ Abs(t1) \in {pdg.p, pdg.n} /\ Abs(t2) \in {pdg.p, pdg.n}
          /\ (t1 > 0) = (t2 > 0)
        wanted == /\ "Elastic" \in policy.included_2to2
                  /\ ~(same_sign_nucleons /\ sqrt_s < policy.low_snn_cut)
    IN  /\ (elastics # {}) = wanted
        /\ Cardinality(elastics) <= 1
        /\ \A k \in elastics : process_list[k].products = <<t1, t2>>

\* C3 witness: two nucleons of equal sign exactly at the cut, with their
\* Elastic branch in the returned list.
C3_Witness ==
  /\ Returned_list
  /\ Abs(t1) \in {pdg.p, pdg.n} /\ Abs(t2) \in {pdg.p, pdg.n}
  /\ (t1 > 0) = (t2 > 0)
  /\ policy.low_snn_cut > 0 /\ sqrt_s = policy.low_snn_cut
  /\ \E k \in Branches : process_list[k].type = "Elastic"

\* the bucket of a branch
Bucket(b) ==
  CASE b.type = "Elastic" -> 1
    [] b.type = "TwoToOne" -> 2
    [] b.type = "TwoToTwo" /\ b.by = "two_to_two" -> 3
    [] b.type = "StringSoft" -> 4
    [] b.type = "StringHard" -> 5
    [] b.type = "TwoToTwo" /\ b.by = "NNbar_annihilation" -> 6
    [] b.type = "TwoToTwo" /\ b.by = "NNbar_creation" -> 7

\* C4: in the list, while it is built and when it is returned, no branch of
\* a later bucket precedes a branch of an earlier one; the buckets are
\* Elastic, TwoToOne, TwoToTwo of two_to_two, StringSoft, StringHard,
\* NNbar_annihilation, NNbar_creation.
C4_BucketOrder ==
  \A i \in Branches : \A j \in Branches :
    i < j => Bucket(process_list[i]) <= Bucket(process_list[j])

\* C4 witness: a returned list with an Elastic branch, both string
\* branches and the annihilation branch.
C4_Witness ==
  /\ Returned_list
  /\ Len(process_list) = 4
  /\ process_list[1].type = "Elastic"
  /\ process_list[2].type = "StringSoft"
  /\ process_list[3].type = "StringHard"
  /\ process_list[4].by = "NNbar_annihilation"

\* C4 second witness: a returned list with an Elastic branch, 2->1 branches
\* and 2->2 branches.
C4_WitnessResonances ==
  /\ Returned_list
  /\ process_list # <<>> /\ process_list[1].type = "Elastic"
  /\ \E k \in Branches : process_list[k].type = "TwoToOne"
  /\ \E k \in Branches : Bucket(process_list[k]) = 3

\* C5: every branch of a returned list has a weight above really_small.
C5_EveryWeightAboveReallySmall ==
  Returned_list =>
    \A k \in Branches : process_list[k].weight > really_small

\* C5, for the branches that add_channel and two_to_one put on the list
\* only: these are screened against really_small.
C5_ScreenedWeightsAboveReallySmall ==
  \A k \in Branches :
    LET b == process_list[k]
    IN  (b.type = "TwoToOne" \/ (b.by = "two_to_two" /\ ~is_nucleus(t1) /\ ~is_nucleus(t2)))
          => b.weight > really_small

\* C6: every 2->2 branch of a returned list lies strictly above the
\* threshold of its two products.
C6_TwoProductBranchesAboveThreshold ==
  Returned_list =>
    \A k \in Branches :
      LET b == process_list[k]
      IN  b.type = "TwoToTwo" =>
            sqrt_s > min_mass_spectral(b.products[1])
                       + min_mass_spectral(b.products[2])

\* the species tests of the claims, on the codes
NucleonCode(c) == Abs(c) \in {pdg.p, pdg.n}
PionCode(c) == c \in {pdg.pi_p, pdg.pi_z, pdg.pi_m}
KaonCode(c) == Abs(c) \in {pdg.K_p, pdg.K_z}

\* C7: once decide_string has answered, strings are selected only with
\* strings_switch on and a nucleon-nucleon or pion-nucleon pair; for such a
\* pair, with (E0, w) = (4.5, 0.5) GeV for NN and (2.7, 0.4) GeV for pi N,
\* always when sqrt_s > E0 + w, never when sqrt_s <= E0 - w, and in between
\* exactly when the draw u satisfies u < (sqrt_s - E0 + w) / (2 w).
C7_StringRegimeDecision ==
  pc # "start" =>
    LET nn  == NucleonCode(t1) /\ NucleonCode(t2)
        pin == \/ PionCode(t1) /\ NucleonCode(t2)
               \/ NucleonCode(t1) /\ PionCode(t2)
        E0  == IF nn THEN 4500 ELSE 2700
        w   == IF nn THEN 500 ELSE 400
    IN  IF ~policy.strings_switch \/ ~(nn \/ pin) THEN ~is_pythia /\ draws = <<>>
        ELSE IF sqrt_s > E0 + w THEN is_pythia
        ELSE IF sqrt_s <= E0 - w THEN ~is_pythia
        ELSE /\ Len(draws) >= 1
             /\ is_pythia = (draws[1] * 2 * w < (sqrt_s - E0 + w) * UDen)

\* C7 witness: a pion-nucleon pair inside its window for which a draw above
\* zero selected strings, and the call went on.
C7_Witness ==
  /\ pc \notin {"start", "elastic"}
  /\ policy.strings_switch
  /\ PionCode(t1) /\ NucleonCode(t2)
  /\ sqrt_s > 2300 /\ sqrt_s < 3100
  /\ Len(draws) >= 1 /\ draws[1] > 0
  /\ is_pythia

\* C7 second witness: a nucleon pair inside its window for which the draw
\* did not select strings.
C7_WitnessNotSelected ==
  /\ pc \notin {"start", "elastic"}
  /\ policy.strings_switch
  /\ NucleonCode(t1) /\ NucleonCode(t2)
  /\ sqrt_s > 4000 /\ sqrt_s <= 5000
  /\ Len(draws) >= 1
  /\ ~is_pythia

\* the K N background parametrization of a nucleon (p or n) and a kaon
KNBackground(nucleon, kaon) ==
  CASE nucleon = pdg.p /\ kaon = pdg.K_p    -> par.kplusp_elastic_background
    [] nucleon = pdg.p /\ kaon = pdg.K_m    -> par.kminusp_elastic_background
    [] nucleon = pdg.p /\ kaon = pdg.K_z    -> par.k0p_elastic_background
    [] nucleon = pdg.p /\ kaon = pdg.Kbar_z -> par.kbar0p_elastic_background
    [] nucleon = pdg.n /\ kaon = pdg.K_p    -> par.kplusn_elastic_background
    [] nucleon = pdg.n /\ kaon = pdg.K_m    -> par.kminusn_elastic_background
    [] nucleon = pdg.n /\ kaon = pdg.K_z    -> par.k0n_elastic_background
    [] nucleon = pdg.n /\ kaon = pdg.Kbar_z -> par.kbar0n_elastic_background

\* the pairs C10 is about
ParametrizedPair ==
  \/ NucleonCode(t1) /\ NucleonCode(t2) /\ (t1 > 0) = (t2 > 0)
  \/ NucleonCode(t1) /\ (PionCode(t2) \/ KaonCode(t2))
  \/ NucleonCode(t2) /\ (PionCode(t1) \/ KaonCode(t1))

\* the value of the parametrization selected for such a pair: pp or np for
\* two nucleons; for pi N the pi+ p value when |I_3| = 3/2, the pi- p value
\* when |I_3| = 1/2 with a charged pion, their mean for pi0; for K N the
\* background of the pair, charge conjugated when the nucleon is an
\* antinucleon
SelectedParametrization ==
  LET s == sqrt_s * sqrt_s
      nucleon == IF NucleonCode(t1) THEN t1 ELSE t2
      other   == IF NucleonCode(t1) THEN t2 ELSE t1
      plus    == Param(par.piplusp_elastic, s)
      minus   == Param(par.piminusp_elastic, s)
  IN  IF NucleonCode(other)
      THEN (IF t1 = t2 THEN Param(par.pp_elastic, s) ELSE Param(par.np_elastic, s))
      ELSE IF PionCode(other)
      THEN (IF other = pdg.pi_z THEN Half(plus + minus)
            ELSE IF Abs(isospin3(nucleon) + isospin3(other)) = 3 THEN plus
            ELSE minus)
      ELSE IF nucleon > 0 THEN Param(KNBackground(nucleon, other), s)
      ELSE Param(KNBackground(-nucleon, -other), s)

\* the elastic branch is asked for with the parametrization
ParametrizedElasticAsked ==
  /\ policy.elastic_parameter < 0
  /\ "Elastic" \in policy.included_2to2
  /\ ~(NucleonCode(t1) /\ NucleonCode(t2) /\ (t1 > 0) = (t2 > 0)
       /\ sqrt_s < policy.low_snn_cut)
  /\ ParametrizedPair

\* C10: with elastic_parameter < 0 and a same-sign NN, N pi or N K pair,
\* once the elastic step is over: a non-positive parametrization has
\* aborted the call with the error that names both species, their spins,
\* the value and s, and no list is left; otherwise the Elastic branch
\* carries the positive value.  No Elastic branch of such a call has a
\* weight that is not positive.
C10_NonPositiveParametrizationIsFatal ==
  (ParametrizedElasticAsked /\ pc \notin {"start", "elastic"}) =>
    IF SelectedParametrization <= 0
    THEN /\ pc = "aborted"
         /\ process_list = <<>>
         /\ error = [what |-> "problem in CrossSections::elastic",
                     a |-> t1, b |-> t2, j_a |-> spin(t1), j_b |-> spin(t2),
                     sigma |-> SelectedParametrization, s |-> sqrt_s * sqrt_s]
    ELSE \/ pc = "aborted"
         \/ /\ process_list # <<>>
            /\ process_list[1].type = "Elastic"
            /\ process_list[1].weight = SelectedParametrization

\* C10 witness: the call of a nucleon and a kaon aborted on a negative
\* value of the parametrization.
C10_Witness ==
  /\ ParametrizedElasticAsked
  /\ KaonCode(t1) \/ KaonCode(t2)
  /\ SelectedParametrization < 0
  /\ pc = "aborted"
  /\ error.what = "problem in CrossSections::elastic"

\* C10 second witness: the same for a value of exactly zero, two nucleons.
C10_WitnessZero ==
  /\ ParametrizedElasticAsked
  /\ NucleonCode(t1) /\ NucleonCode(t2)
  /\ SelectedParametrization = 0
  /\ pc = "aborted"
  /\ error.what = "problem in CrossSections::elastic"

\* string_excitation has run with S > 0 and a provider
StringLocals == str.stage = "rebalanced"

\* the weights of the branches of one type in the list
WeightOfType(type) ==
  LET ks == {k \in Branches : process_list[k].type = type}
  IN  IF ks = {} THEN 0 ELSE process_list[CHOOSE k \in ks : TRUE].weight

\* what C8 says of the values of one run of string_excitation
RebalancedAsSpecified ==
  LET r  == str.r
      sp == str.sp
  IN  /\ r.assertion
      /\ ~r.nan_a /\ ~sp.nan_soft
      /\ r.single_diffr_AX >= 0 /\ r.single_diffr_XB >= 0
      /\ r.double_diffr >= 0 /\ r.nondiffractive_all >= 0
      /\ r.single_diffr_AX + r.single_diffr_XB + r.double_diffr
           + r.nondiffractive_all = r.S * r.den
      /\ sp.nondiffractive_soft + sp.nondiffractive_hard = r.nondiffractive_all
      /\ pc \in {"nnbar", "done"} =>
           /\ WeightOfType("StringSoft") + WeightOfType("StringHard") = r.S
           /\ WeightOfType("StringHard") * r.den = sp.nondiffractive_hard
           /\ WeightOfType("StringSoft") * r.den = r.S * r.den - sp.nondiffractive_hard

\* C8: whenever string_excitation has run with S > 0 and any answer of the
\* provider, the assertion holds, the rebalanced AX, XB, DD and nondiff_all
\* are non-negative numbers summing to S, nondiff_soft + nondiff_hard is
\* nondiff_all, and the emitted StringSoft and StringHard weights are
\* S - nondiff_hard and nondiff_hard.
C8_RebalancedWeightsSumToBudget ==
  StringLocals => RebalancedAsSpecified

\* C8, for the runs in which no division of zero by zero occurred: the
\* provider gave AX + XB > 0, and nondiff_all and the hard cross section
\* are not both zero.
C8_HoldsWithoutZeroByZero ==
  (StringLocals /\ ~str.r.nan_a /\ ~str.sp.nan_soft) => RebalancedAsSpecified

\* the first outcome of C9: the subprocess was recorded once, it is one of
\* the first four, of positive weight, and its bucket holds the draw
SubprocessRecorded ==
  LET sum == str.sp.string_sub_cross_sections_sum
      u   == draws[Len(draws)]
  IN  /\ pc \in {"string_emit", "nnbar", "done"}
      /\ n_set_subproc = 1
      /\ ~str.sp.nan_sum
      /\ pc = "string_emit" =>
           \A k \in Branches : process_list[k].type \notin {"StringSoft", "StringHard"}
      /\ \E i \in 1..4 :
           /\ subproc = StringSoftType[i]
           /\ sum[i + 1] - sum[i] > 0
           /\ sum[i] * UDen <= sum[5] * u
           /\ sum[5] * u < sum[i + 1] * UDen

\* the second outcome of C9: the four weights sum to zero and the call
\* aborted without recording or emitting anything
SubprocessUnresolved ==
  /\ pc = "aborted"
  /\ error.what = "soft string subprocess is not specified."
  /\ ~str.sp.nan_sum
  /\ str.sp.string_sub_cross_sections_sum[5] = 0
  /\ n_set_subproc = 0
  /\ process_list = <<>>

\* C9: a run of string_excitation with S > 0 and a provider ends in exactly
\* one of the two outcomes above; set_subproc is not called in any other
\* call.
C9_RecordedOrUnresolved ==
  IF StringLocals
  THEN SubprocessRecorded \/ SubprocessUnresolved
  ELSE n_set_subproc = 0 /\ subproc = NoSubproc

\* C9, for the runs in which no division of zero by zero occurred.
C9_HoldsWithoutZeroByZero ==
  IF StringLocals /\ ~str.r.nan_a /\ ~str.sp.nan_soft
  THEN SubprocessRecorded
  ELSE StringLocals \/ (n_set_subproc = 0 /\ subproc = NoSubproc)

\* C11: whenever decide_string selected the string regime and no string
\* provider was passed, the call aborts: once string_excitation is over
\* the call is in its aborted state, never going on to return a list.
C11_MissingProviderIsFatal ==
  (is_pythia /\ ~policy.string_process
     /\ pc \in {"string_emit", "nnbar", "done", "aborted"})
    => pc = "aborted"

\* C11, for the calls whose string budget is positive: these abort with
\* the error of the missing provider, unless the parametrization threw.
C11_FatalWhenBudgetPositive ==
  (is_pythia /\ ~policy.string_process
     /\ pc \in {"string_emit", "nnbar", "done", "aborted"}
     /\ ~sig_string_all.throws /\ sig_string_all.value > 0)
    => /\ pc = "aborted"
       /\ error.what \in {"string_process should be initialized.",
                          "problem in CrossSections::elastic"}

\* C11, the case of high_energy() = 0: a pi0 and a nucleon above the
\* window, no provider, and the call has returned a list.
C11_ReturnedWithoutProvider ==
  /\ Returned_list
  /\ is_pythia /\ ~policy.string_process
  /\ pdg.pi_z \in {t1, t2}
  /\ high_energy = 0

\* the parametrization C12 names for two nucleons: pp for equal codes,
\* ppbar for a nucleon and its antiparticle, np otherwise
NucleonPairElastic ==
  IF t1 = t2 THEN Param(par.pp_elastic, sqrt_s * sqrt_s)
  ELSE IF t2 = -t1 THEN Param(par.ppbar_elastic, sqrt_s * sqrt_s)
  ELSE Param(par.np_elastic, sqrt_s * sqrt_s)

\* C12: with elastic_parameter < 0 the Elastic branch of two nucleons, of
\* any antiparticle signs, weighs pp_elastic(s), ppbar_elastic(s) or
\* np_elastic(s) as selected above.
C12_NucleonElasticBySigns ==
  (policy.elastic_parameter < 0 /\ NucleonCode(t1) /\ NucleonCode(t2)) =>
    \A k \in Branches :
      process_list[k].type = "Elastic" =>
        process_list[k].weight = NucleonPairElastic

\* C12, for two nucleons of equal antiparticle sign only.
C12_HoldsForEqualSigns ==
  (policy.elastic_parameter < 0 /\ NucleonCode(t1) /\ NucleonCode(t2)
     /\ (t1 > 0) = (t2 > 0)) =>
    \A k \in Branches :
      process_list[k].type = "Elastic" =>
        process_list[k].weight = NucleonPairElastic

-----------------------------------------------------------------------------
(* NN-bar creation *)

\* the pair is exactly rho0 and h1(1170), in either order
RhoAndH1 == <<t1, t2>> \in {<<pdg.rho_z, pdg.h1>>, <<pdg.h1, pdg.rho_z>>}

\* detailed_balance_factor_RR * max(0, ppbar_total(s) - ppbar_elastic(s))
CreationWeight ==
  Times(detailed_balance_factor_RR(sqrt_s, cm_momentum, t1, t2, pdg.p, -pdg.p),
        Max(0, Param(par.ppbar_total, s_of(sqrt_s))
               - Param(par.ppbar_elastic, s_of(sqrt_s))))

\* a 2->2 branch to a nucleon and its antinucleon
IsCreationBranch(b) ==
  /\ b.type = "TwoToTwo"
  /\ b.products \in {<<pdg.p, -pdg.p>>, <<pdg.n, -pdg.n>>}

\* the list ends with the two reverse branches, p pbar then n nbar, and has
\* no other branch of this kind
EndsWithTheTwoReverseBranches ==
  LET n == Len(process_list)
  IN  /\ n >= 2
      /\ process_list[n - 1].products = <<pdg.p, -pdg.p>>
      /\ process_list[n].products = <<pdg.n, -pdg.n>>
      /\ \A k \in {n - 1, n} :
           /\ process_list[k].type = "TwoToTwo"
           /\ process_list[k].weight = CreationWeight
      /\ \A k \in 1..(n - 2) : ~IsCreationBranch(process_list[k])

NoReverseBranch == \A k \in Branches : ~IsCreationBranch(process_list[k])

\* C15 as stated: with nnbar_treatment = Resonances and the pair rho0 h1 the
\* list ends with exactly the two reverse branches to p pbar and n nbar, both
\* of weight detailed_balance_factor_RR * max(0, ppbar_total - ppbar_elastic);
\* for any other pair or treatment there is no such branch.
C15_CreationAppendsTwoBranches ==
  Returned_list
    => IF policy.nnbar_treatment = "Resonances" /\ RhoAndH1
       THEN EndsWithTheTwoReverseBranches
       ELSE NoReverseBranch

\* C15 with the check of the available energy: the two branches are appended
\* when, in addition, sqrt_s is not below twice the nucleon mass; below it,
\* and for any other pair or treatment, there is no such branch.
C15_CreationAppendsTwoBranchesAtEnoughEnergy ==
  Returned_list
    => IF /\ policy.nnbar_treatment = "Resonances"
          /\ RhoAndH1
          /\ sqrt_s >= 2 * mass(pdg.p)
       THEN EndsWithTheTwoReverseBranches
       ELSE NoReverseBranch

\* rho0 h1 with enough energy and a positive weight of the reverse branches
C15_Witness ==
  /\ Returned_list
  /\ policy.nnbar_treatment = "Resonances"
  /\ RhoAndH1
  /\ sqrt_s > 2 * mass(pdg.p)
  /\ CreationWeight > 0
  /\ EndsWithTheTwoReverseBranches

\* rho0 h1 below twice the nucleon mass
C15_WitnessBelow ==
  /\ Returned_list
  /\ policy.nnbar_treatment = "Resonances"
  /\ RhoAndH1
  /\ sqrt_s < 2 * mass(pdg.p)

-----------------------------------------------------------------------------
(* K- p *)

\* the five channels of K- p with their parametrizations: strangeness
\* exchange (functions of sqrt_s) and charge exchange (a function of s)
KminusPChannels ==
  <<[products |-> <<pdg.pi_m, pdg.Sigma_p>>, kind |-> "Strangeness_exchange",
     xs |-> Param(par.kminusp_piminussigmaplus, sqrt_s)],
    [products |-> <<pdg.pi_p, pdg.Sigma_m>>, kind |-> "Strangeness_exchange",
     xs |-> Param(par.kminusp_piplussigmaminus, sqrt_s)],
    [products |-> <<pdg.pi_z, pdg.Sigma_z>>, kind |-> "Strangeness_exchange",
     xs |-> Param(par.kminusp_pi0sigma0, sqrt_s)],
    [products |-> <<pdg.pi_z, pdg.Lambda>>, kind |-> "Strangeness_exchange",
     xs |-> Param(par.kminusp_pi0lambda, sqrt_s)],
    [products |-> <<pdg.Kbar_z, pdg.n>>, kind |-> "KN_to_KN",
     xs |-> Param(par.kminusp_kbar0n, s_of(sqrt_s))]>>

\* K- p in either order, returned from the resonance regime, with the
\* Strangeness_exchange bit set
KminusPWithStrangenessExchange ==
  /\ Returned_list
  /\ ~is_pythia
  /\ <<t1, t2>> \in {<<pdg.K_m, pdg.p>>, <<pdg.p, pdg.K_m>>}
  /\ "Strangeness_exchange" \in policy.included_2to2

\* the 2->2 part of the list, as products and weights
TwoToTwoPart ==
  {<<process_list[k].products, process_list[k].weight>> :
     k \in {j \in Branches : process_list[j].type = "TwoToTwo"}}

\* the number of 2->2 branches
TwoToTwoCount == Cardinality({j \in Branches : process_list[j].type = "TwoToTwo"})

\* C16 as stated: for K- p in the resonance regime with Strangeness_exchange
\* set, the 2->2 part of the list is exactly the five channels, each with its
\* parametrization as weight.
C16_KminusPFiveBranches ==
  KminusPWithStrangenessExchange
    => /\ TwoToTwoCount = 5
       /\ TwoToTwoPart = {<<KminusPChannels[i].products, KminusPChannels[i].xs>> : i \in 1..5}

\* the channels that are emitted: strangeness exchange always, charge exchange
\* with the KN_to_KN bit, and only a cross section above really_small
KminusPEmitted ==
  {i \in 1..5 :
     /\ KminusPChannels[i].kind \in policy.included_2to2
     /\ KminusPChannels[i].xs > really_small}

\* C16 with the bit of the charge exchange and the screening of add_channel:
\* the 2->2 part is exactly the channels of KminusPEmitted, each with its
\* parametrization as weight.
C16_KminusPBranchesByBitAndSize ==
  KminusPWithStrangenessExchange
    => /\ TwoToTwoCount = Cardinality(KminusPEmitted)
       /\ TwoToTwoPart = {<<KminusPChannels[i].products, KminusPChannels[i].xs>> :
                            i \in KminusPEmitted}

\* all five branches are there
C16_Witness ==
  /\ KminusPWithStrangenessExchange
  /\ KminusPEmitted = 1..5
  /\ TwoToTwoCount = 5

\* the charge exchange is switched off
C16_WitnessWithoutChargeExchange ==
  /\ KminusPWithStrangenessExchange
  /\ "KN_to_KN" \notin policy.included_2to2
  /\ TwoToTwoCount > 0

\* both bits are set and a channel is screened
C16_WitnessScreened ==
  /\ KminusPWithStrangenessExchange
  /\ "KN_to_KN" \in policy.included_2to2
  /\ Cardinality(KminusPEmitted) < 5

-----------------------------------------------------------------------------
(* Random draws *)

\* the call is over
CallOver == pc \in {"done", "aborted"}

\* strings are enabled for the pair and sqrt_s is inside the window of the
\* mixed regime: (4.0, 5.0] GeV for two nucleons, (2.3, 3.1] GeV for a pion
\* and a nucleon
InMixedWindow ==
  /\ policy.strings_switch
  /\ \/ /\ NucleonCode(t1) /\ NucleonCode(t2)
        /\ sqrt_s > 4000 /\ sqrt_s <= 5000
     \/ /\ (PionCode(t1) /\ NucleonCode(t2)) \/ (NucleonCode(t1) /\ PionCode(t2))
        /\ sqrt_s > 2300 /\ sqrt_s <= 3100

\* the soft-string subprocess selection was made: it recorded a subprocess
\* or found none
SelectionMade ==
  \/ n_set_subproc = 1
  \/ error.what = "soft string subprocess is not specified."

\* the list holds a string branch
EmitsStringBranch ==
  \E k \in Branches : process_list[k].type \in {"StringSoft", "StringHard"}

\* C18 as stated: a call consumes at most one draw, the one of the
\* soft-string subprocess selection, and none when it emits no string branch.
C18_AtMostOneDraw ==
  CallOver
    => /\ Len(draws) <= 1
       /\ Len(draws) = 1 => SelectionMade
       /\ ~EmitsStringBranch => draws = <<>>

\* C18 with the draw of the regime selector: a call consumes one draw in
\* decide_string exactly when strings are enabled for the pair and sqrt_s is
\* inside the mixed window, and one more exactly when it makes the
\* soft-string subprocess selection; so at most two, and none when strings
\* are switched off.
C18_DrawsOfSelectorAndSelection ==
  CallOver
    => /\ Len(draws) = (IF InMixedWindow THEN 1 ELSE 0)
                         + (IF SelectionMade THEN 1 ELSE 0)
       /\ Len(draws) <= 2
       /\ ~policy.strings_switch => draws = <<>>

\* a call that consumed two draws
C18_Witness ==
  /\ pc = "done"
  /\ Len(draws) = 2
  /\ EmitsStringBranch

\* a call in the resonance regime that consumed a draw
C18_WitnessNoStringBranch ==
  /\ pc = "done"
  /\ ~is_pythia
  /\ Len(draws) = 1

-----------------------------------------------------------------------------
(* Two calls compared *)

\* both calls have returned a list, the earlier one for a pair in this relation
BothReturned(relation) ==
  /\ pc = "done"
  /\ previous.pc = "done"
  /\ previous.relation = relation

\* the draws of both calls come from the same values of the random stream,
\* and the string provider gave both the same answers
SameDrawsAndAnswers ==
  /\ \A i \in 1..Len(draws) : i <= Len(previous.draws) => draws[i] = previous.draws[i]
  /\ (str.stage = "rebalanced" /\ previous.str.stage = "rebalanced")
       => /\ str.r.xs = previous.str.r.xs
          /\ (str.r = previous.str.r /\ str.sp.hard_xsec = previous.str.sp.hard_xsec)
               => str.sp = previous.str.sp

\* the products of a branch, each replaced by its antiparticle
Conjugated(products) ==
  [i \in 1..Len(products) |-> get_antiparticle(products[i])]

\* the same outgoing particles, in either order
SameProducts(p, q) ==
  \/ p = q
  \/ Len(p) = 2 /\ Len(q) = 2 /\ p = <<q[2], q[1]>>

\* branch k of this call mirrors branch k of the earlier call
Mirrors(k) ==
  /\ process_list[k].type = previous.process_list[k].type
  /\ process_list[k].weight = previous.process_list[k].weight
  /\ SameProducts(process_list[k].products,
                  Conjugated(previous.process_list[k].products))

\* C13: the list returned for the charge-conjugated pair (anti-a, anti-b) is
\* the list returned for (a, b) with every product replaced by its
\* antiparticle: as many branches, of the same kinds, with the same weights,
\* given the same random draws and the same answers of the string provider.
C13_AntiparticleSymmetry ==
  (BothReturned("conjugated") /\ SameDrawsAndAnswers)
    => /\ Len(process_list) = Len(previous.process_list)
       /\ \A k \in Branches : k <= Len(previous.process_list) => Mirrors(k)

\* the same, in the resonance regime only
C13_HoldsWithoutStrings ==
  (BothReturned("conjugated") /\ SameDrawsAndAnswers
     /\ ~is_pythia /\ ~previous.is_pythia)
    => /\ Len(process_list) = Len(previous.process_list)
       /\ \A k \in Branches : k <= Len(previous.process_list) => Mirrors(k)

\* the kinds of pair of the strangeness tables
IsKN(a, b)  == (is_kaon(a) /\ is_nucleon(b)) \/ (is_nucleon(a) /\ is_kaon(b))
IsPiY(a, b) == (is_pion(a) /\ is_hyperon(b)) \/ (is_hyperon(a) /\ is_pion(b))
IsKDelta(a, b) == (is_kaon(a) /\ is_Delta(b)) \/ (is_Delta(a) /\ is_kaon(b))

\* cm_momentum() of a call for the pair (a, b)
CmMomentumOf(a, b) ==
  IF sqrt_s > mass(a) + mass(b)
  THEN pCM(sqrt_s, mass(a), mass(b))
  ELSE pCM(sqrt_s, min_mass_kinematic(a), min_mass_kinematic(b))

\* The helper that turns the forward cross section of  n k -> c d  into the
\* cross section of  c d -> n k: detailed_balance_factor_stable for a pion
\* and a hyperon, detailed_balance_factor_RK for a kaon and a Delta.
ReverseHelper(c, d, n, k) ==
  IF IsPiY(c, d)
  THEN detailed_balance_factor_stable(s_of(sqrt_s), c, d, n, k)
  ELSE LET delta == IF is_Delta(c) THEN c ELSE d
           kaon  == IF is_Delta(c) THEN d ELSE c
       IN  detailed_balance_factor_RK(sqrt_s, CmMomentumOf(c, d), delta, kaon, n, k)

\* a kaon-nucleon call returned, branch previous.branch of its list went to a
\* pion and a hyperon or to a kaon and a Delta, and the call for these two
\* products has returned as well
ForwardThenReverse ==
  /\ BothReturned("products")
  /\ IsKN(previous.t1, previous.t2)
  /\ previous.process_list[previous.branch].type = "TwoToTwo"
  /\ IsPiY(t1, t2) \/ IsKDelta(t1, t2)

\* the list has a 2->2 branch to the pair (a, b) with this weight
HasBranchTo(list, a, b, weight) ==
  \E k \in 1..Len(list) :
    /\ list[k].type = "TwoToTwo"
    /\ SameProducts(list[k].products, <<a, b>>)
    /\ list[k].weight = weight

\* the weight the reverse of the forward branch is to have
ReverseWeight ==
  Times(ReverseHelper(t1, t2, previous.t1, previous.t2),
        previous.process_list[previous.branch].weight)

\* C14 as stated: every forward branch K N -> pi Y or K N -> K Delta has its
\* reverse in the list of the product pair, a 2->2 branch back to K N whose
\* weight is the helper times the forward weight; and every 2->2 branch of
\* pi Y or K Delta is the reverse of a forward branch of the K N list.
C14_DetailedBalanceClosure ==
  /\ ForwardThenReverse
       => HasBranchTo(process_list, previous.t1, previous.t2, ReverseWeight)
  /\ (BothReturned("products") /\ IsKN(t1, t2)
        /\ (IsPiY(previous.t1, previous.t2) \/ IsKDelta(previous.t1, previous.t2))
        /\ previous.process_list[previous.branch].type = "TwoToTwo")
       => \E k \in Branches :
            /\ process_list[k].type = "TwoToTwo"
            /\ SameProducts(process_list[k].products, <<previous.t1, previous.t2>>)
            /\ previous.process_list[previous.branch].weight
                 = Times(ReverseHelper(previous.t1, previous.t2, t1, t2),
                         process_list[k].weight)

\* the list has a 2->2 branch to the pair (a, b)
HasSomeBranchTo(list, a, b) ==
  \E k \in 1..Len(list) :
    /\ list[k].type = "TwoToTwo"
    /\ SameProducts(list[k].products, <<a, b>>)

\* a call for a pion and a hyperon or a kaon and a Delta returned, branch
\* previous.branch of its list is a 2->2 branch, and the call for its two
\* products, a kaon and a nucleon, has returned as well
ReverseThenForward ==
  /\ BothReturned("products")
  /\ IsKN(t1, t2)
  /\ IsPiY(previous.t1, previous.t2) \/ IsKDelta(previous.t1, previous.t2)
  /\ previous.process_list[previous.branch].type = "TwoToTwo"

\* C14 with the screening of add_channel: the reverse of a forward branch is
\* in the list of the product pair, with the helper times the forward weight
\* as its weight, exactly when this weight exceeds really_small; and a 2->2
\* branch of pi Y or K Delta is the reverse of a forward branch of the K N
\* list, or of a forward channel that the K N list leaves out because its
\* cross section does not exceed really_small.
C14_ClosureAboveReallySmall ==
  /\ ForwardThenReverse
       => IF ReverseWeight > really_small
          THEN HasBranchTo(process_list, previous.t1, previous.t2, ReverseWeight)
          ELSE ~HasSomeBranchTo(process_list, previous.t1, previous.t2)
  /\ ReverseThenForward
       => LET reverse == previous.process_list[previous.branch]
              helper  == ReverseHelper(previous.t1, previous.t2, t1, t2)
          IN  \/ \E k \in Branches :
                   /\ process_list[k].type = "TwoToTwo"
                   /\ SameProducts(process_list[k].products,
                                   <<previous.t1, previous.t2>>)
                   /\ reverse.weight = Times(helper, process_list[k].weight)
              \/ /\ ~HasSomeBranchTo(process_list, previous.t1, previous.t2)
                 /\ reverse.weight <= Times(helper, really_small)

\* a forward branch to a pion and a hyperon, and its reverse in the list of
\* the pion and the hyperon
C14_Witness ==
  /\ ForwardThenReverse
  /\ IsPiY(t1, t2)
  /\ ReverseWeight > really_small
  /\ HasBranchTo(process_list, previous.t1, previous.t2, ReverseWeight)

\* the same for a kaon and a Delta
C14_WitnessKDelta ==
  /\ ForwardThenReverse
  /\ IsKDelta(t1, t2)
  /\ ReverseWeight > really_small
  /\ HasBranchTo(process_list, previous.t1, previous.t2, ReverseWeight)

\* a reverse branch, and the forward branch it is the reverse of
C14_WitnessConverse ==
  /\ ReverseThenForward
  /\ HasSomeBranchTo(process_list, previous.t1, previous.t2)

\* a reverse branch of a forward channel that is left out
C14_WitnessConverseScreened ==
  /\ ReverseThenForward
  /\ ~HasSomeBranchTo(process_list, previous.t1, previous.t2)

\* the same branch up to the order of its products
SameBranch(b, c) ==
  /\ b.type = c.type
  /\ b.weight = c.weight
  /\ SameProducts(b.products, c.products)

\* how often a branch is in a list
Count(list, b) == Cardinality({k \in 1..Len(list) : SameBranch(list[k], b)})

\* both calls were made in the resonance regime and returned
BothReturnedFromResonances(relation) ==
  /\ BothReturned(relation)
  /\ ~is_pythia
  /\ ~previous.is_pythia

\* C17: in the resonance regime the list for (b, a) is the list for (a, b)
\* as a multiset of branches (products unordered, kind, weight).
C17_SwapSymmetry ==
  BothReturnedFromResonances("swapped")
    => /\ Len(process_list) = Len(previous.process_list)
       /\ \A k \in Branches :
            Count(process_list, process_list[k])
              = Count(previous.process_list, process_list[k])

\* d + N after N + d: the same N d' branch
C17_Witness ==
  /\ BothReturnedFromResonances("swapped")
  /\ is_deuteron(t1)
  /\ is_nucleon(t2)
  /\ \E k \in Branches :
       /\ process_list[k].type = "TwoToTwo"
       /\ process_list[k].weight > 0
       /\ is_dprime(process_list[k].products[2])
       /\ Count(previous.process_list, process_list[k]) = 1

\* a swapped pair with 2->1 and 2->2 branches
C17_WitnessResonances ==
  /\ BothReturnedFromResonances("swapped")
  /\ \E k \in Branches : process_list[k].type = "TwoToOne"
  /\ \E k \in Branches : process_list[k].type = "TwoToTwo"

-----------------------------------------------------------------------------
(* Concurrent calls *)

\* the soft subprocess this call selected for its collision
OwnSubprocess == StringSoftType[select_subproc(str.sp, draws[Len(draws)])]

\* C19: a call is not disturbed by a call running at the same time on
\* another object: once it has recorded the soft subprocess of its collision,
\* the string provider holds that subprocess until the caller reads it, as
\* if the call had run alone.
C19_NoInterference ==
  (n_set_subproc = 1 /\ pc \in {"string_emit", "nnbar", "done"})
    => subproc = OwnSubprocess

\* the call has returned with its subprocess recorded while the other call
\* was running
C19_Witness ==
  /\ pc = "done"
  /\ n_set_subproc = 1
  /\ concurrent.pc = "done"

-----------------------------------------------------------------------------
(* Float traps *)

-----------------------------------------------------------------------------
(* String regime or resonance regime *)

\* the branches of the list of the given process types
OfTypes(types) == {i \in Branches : process_list[i].type \in types}

\* C21: once decide_string has answered, a call in the string regime has no
\* TwoToOne branch and no branch built by two_to_two() on its list, whatever
\* two_to_one_switch and included_2to2 say, and with a string budget that is
\* not positive only the Elastic branch and the NN-bar closure branches are
\* left; a call outside the string regime has no StringSoft and no
\* StringHard branch.
C21_RegimesExclusive ==
  pc # "start" =>
    IF is_pythia
    THEN /\ \A i \in Branches :
              /\ process_list[i].type # "TwoToOne"
              /\ process_list[i].by \notin {"two_to_one", "two_to_two"}
         /\ str = NoStr =>
              \A i \in Branches :
                process_list[i].by \in {"elastic", "NNbar_annihilation", "NNbar_creation"}
    ELSE OfTypes({"StringSoft", "StringHard"}) = {}

\* C21 witness: a call returned from the string regime with a string branch
\* on its list, for a pair and arguments that give 2->1 and 2->2 branches
\* in the resonance regime.
C21_Witness ==
  /\ pc = "done"
  /\ is_pythia
  /\ policy.two_to_one_switch
  /\ two_to_one # <<>>
  /\ two_to_two(policy.included_2to2) # <<>>
  /\ OfTypes({"StringSoft", "StringHard"}) # {}

\* C21 second witness: the string regime with a string budget of zero, for
\* a pair that has resonance branches: the list came back without them.
C21_WitnessNoBudget ==
  /\ pc = "done"
  /\ is_pythia
  /\ str = NoStr
  /\ policy.two_to_one_switch
  /\ two_to_one # <<>> \/ two_to_two(policy.included_2to2) # <<>>

\* C21 third witness: the resonance regime with strings switched on, and
\* 2->1 or 2->2 branches on the list.
C21_WitnessResonances ==
  /\ pc = "done"
  /\ ~is_pythia
  /\ policy.strings_switch
  /\ OfTypes({"TwoToOne", "TwoToTwo"}) # {}


-----------------------------------------------------------------------------
(* The string budget *)

\* string_excitation has computed its budget and gone on
BudgetComputed == is_pythia /\ pc \in {"string_emit", "nnbar", "done"}

\* sig_string_all of this call (nothing is kept of a budget of zero)
Budget == IF StringLocals THEN str.r.S ELSE 0

\* the elastic cross section carried by the Elastic branch of this call
ElasticCarried ==
  IF OfTypes({"Elastic"}) = {} THEN 0 ELSE WeightOfType("Elastic")

\* C22: the string budget is max(0, sigma_high_energy - sigma_elastic) with
\* sigma_elastic the weight of the Elastic branch of this call (nothing
\* without an Elastic branch), and so the Elastic and string weights sum to
\* max(sigma_elastic, sigma_high_energy).
C22_BudgetIsTotalMinusElasticBranch ==
  BudgetComputed =>
    /\ Budget = Max(0, high_energy - ElasticCarried)
    /\ pc = "nnbar" =>
         sum_xs_of(process_list) = Max(ElasticCarried, high_energy)

\* C22 for the calls whose Elastic branch carries the parametrization: the
\* budget is the high-energy total minus that branch, clamped at zero.
C22_HoldsForParametrizedElastic ==
  /\ BudgetComputed
  /\ policy.elastic_parameter < 0
  /\ OfTypes({"Elastic"}) # {}
  => Budget = Max(0, high_energy - ElasticCarried)

\* a budget computed for a call whose Elastic branch carries the
\* parametrization, and positive
C22_ReachedParametrized ==
  /\ BudgetComputed
  /\ policy.elastic_parameter < 0
  /\ OfTypes({"Elastic"}) # {}
  /\ Budget > 0


-----------------------------------------------------------------------------
(* The kaon, hyperon and Delta tables *)

\* the pair is handed to nk_xx, ypi_xx or deltak_xx by two_to_two
TablePair(a, b) ==
  \/ is_nucleon(a) /\ is_kaon(b)
  \/ is_hyperon(a) /\ is_pion(b)
  \/ is_Delta(a) /\ is_kaon(b)

InTables == TablePair(t1, t2) \/ TablePair(t2, t1)

\* two_to_two has run for this call
TwoToTwoRan == ~is_pythia /\ pc \in {"nnbar", "done"} /\ policy.included_2to2 # {}

\* combinations of species no table lists: Kbar0 p, K0 pbar, Sigma+ pi+,
\* Delta++ K+
NotInTables ==
  {<<pdg.Kbar_z, pdg.p>>, <<pdg.K_z, -pdg.p>>, <<pdg.Sigma_p, pdg.pi_p>>,
   <<pdg.Delta_pp, pdg.K_p>>}

Unlisted == <<t1, t2>> \in NotInTables \/ <<t2, t1>> \in NotInTables

\* the branches two_to_two put on the list
BuiltByTwoToTwo == {i \in Branches : process_list[i].by = "two_to_two"}

ConservesStrangenessAndIsospin3(products) ==
  /\ strangeness(products[1]) + strangeness(products[2])
       = strangeness(t1) + strangeness(t2)
  /\ isospin3(products[1]) + isospin3(products[2])
       = isospin3(t1) + isospin3(t2)

\* C23: every channel of nk_xx, ypi_xx and deltak_xx has the strangeness and
\* the isospin z-component of the incoming pair, and a combination of
\* species that no table lists gives no channel and no error.
C23_TablesConserve ==
  InTables /\ TwoToTwoRan =>
    /\ \A i \in BuiltByTwoToTwo :
         /\ Len(process_list[i].products) = 2
         /\ ConservesStrangenessAndIsospin3(process_list[i].products)
    /\ Unlisted => BuiltByTwoToTwo = {} /\ error = NoError

\* C23 witness: a call returned for a hyperon and a pion with a channel of
\* ypi_xx on its list.
C23_Witness ==
  /\ pc = "done"
  /\ TablePair(t1, t2) /\ is_hyperon(t1)
  /\ BuiltByTwoToTwo # {}

\* C23 further witnesses: channels of nk_xx and of deltak_xx with the pair in
\* the other order, and a combination outside the tables with every bit set.
C23_WitnessKaonNucleon ==
  /\ pc = "done"
  /\ is_kaon(t1) /\ is_nucleon(t2) /\ t2 < 0
  /\ Cardinality(BuiltByTwoToTwo) >= 3

C23_WitnessKaonDelta ==
  /\ pc = "done"
  /\ is_kaon(t1) /\ is_Delta(t2)
  /\ Cardinality(BuiltByTwoToTwo) = 2

C23_WitnessUnlisted ==
  /\ pc = "done"
  /\ <<t1, t2>> \in NotInTables
  /\ policy.included_2to2 = IncludedReactions
  /\ sqrt_s = 4600


-----------------------------------------------------------------------------
(* The bits of included_2to2 *)

\* one of the two types is of one of the families
OneIs(families, products) ==
  \/ registry[products[1]].family \in families
  \/ registry[products[2]].family \in families

BothBaryons == is_baryon(t1) /\ is_baryon(t2)
SameSign == antiparticle_sign(t1) = antiparticle_sign(t2)
NucleonPairSameSign == is_nucleon(t1) /\ is_nucleon(t2) /\ SameSign

\* the reaction a branch of two_to_two belongs to, from the incoming pair
\* and the products: a bit of included_2to2, "free" for a channel no bit
\* controls, "never" for a channel that is not to be
ReactionOf(products) ==
  IF TablePair(t1, t2) \/ TablePair(t2, t1)
  THEN (IF OneIs({"Lambda", "Sigma"}, <<t1, t2>>) THEN "Strangeness_exchange"
        ELSE IF OneIs({"Delta"}, <<t1, t2>>) THEN "KN_to_KDelta"
        ELSE IF OneIs({"Lambda", "Sigma"}, products) THEN "Strangeness_exchange"
        ELSE IF OneIs({"Delta"}, products) THEN "KN_to_KDelta"
        ELSE "KN_to_KN")
  ELSE IF NucleonPairSameSign
  THEN (IF OneIs({"d", "dprime"}, products) THEN "free"
        ELSE IF OneIs({"N"}, products) THEN "NN_to_NR"
        ELSE IF OneIs({"Delta"}, products) THEN "NN_to_DR"
        ELSE "never")
  ELSE IF BothBaryons
  THEN (IF ~SameSign THEN "never"
        ELSE IF OneIs({"N"}, <<t1, t2>>) THEN "NN_to_NR"
        ELSE IF OneIs({"Delta"}, <<t1, t2>>) THEN "NN_to_DR"
        ELSE "never")
  ELSE "free"

\* C24: a branch of two_to_two that belongs to a reaction of included_2to2
\* is on the list only with the bit of its reaction set: Strangeness_exchange
\* for K N -> pi Y and the channels of ypi_xx, KN_to_KDelta for K N -> K Delta
\* and the channels of deltak_xx, KN_to_KN for the charge exchange, NN_to_NR
\* for N N -> N R and the absorption of a same-sign pair with a nucleon,
\* NN_to_DR for N N -> Delta R and the absorption of a same-sign pair with a
\* Delta and no nucleon; other pairs of baryons have no absorption branch.
C24_BranchesNeedTheirBit ==
  TwoToTwoRan =>
    \A i \in BuiltByTwoToTwo :
      ReactionOf(process_list[i].products) \in policy.included_2to2 \cup {"free"}

\* C24 witness: a Delta and a nucleon absorbed into two nucleons with all
\* bits but NN_to_DR set.
C24_Witness ==
  /\ pc = "done"
  /\ is_Delta(t1) /\ is_nucleon(t2)
  /\ policy.included_2to2 = IncludedReactions \ {"NN_to_DR"}
  /\ BuiltByTwoToTwo # {}

\* C24 further witnesses: the same pair with NN_to_NR alone cleared and
\* nothing from two_to_two; two Deltas absorbed with NN_to_DR alone; p p
\* with NN_to_DR alone and a branch to two Deltas; K- p with KN_to_KN alone
\* and the charge exchange as its only 2->2 branch.
C24_WitnessCleared ==
  /\ pc = "done"
  /\ is_Delta(t1) /\ is_nucleon(t2) /\ SameSign
  /\ two_to_two(IncludedReactions) # <<>>
  /\ policy.included_2to2 = IncludedReactions \ {"NN_to_NR"}
  /\ BuiltByTwoToTwo = {}

C24_WitnessDeltas ==
  /\ pc = "done"
  /\ is_Delta(t1) /\ is_Delta(t2)
  /\ policy.included_2to2 = {"NN_to_DR"}
  /\ BuiltByTwoToTwo # {}

C24_WitnessNucleons ==
  /\ pc = "done"
  /\ <<t1, t2>> = <<pdg.p, pdg.p>>
  /\ policy.included_2to2 = {"NN_to_DR"}
  /\ \E i \in BuiltByTwoToTwo :
       is_Delta(process_list[i].products[1]) /\ is_Delta(process_list[i].products[2])

C24_WitnessChargeExchange ==
  /\ pc = "done"
  /\ <<t1, t2>> = <<pdg.K_m, pdg.p>>
  /\ policy.included_2to2 = {"KN_to_KN"}
  /\ Cardinality(BuiltByTwoToTwo) = 1


-----------------------------------------------------------------------------
(* Light nuclei and the bits *)

\* a branch of two_to_two with a light nucleus coming in or going out
WithNucleus(b) ==
  /\ b.by = "two_to_two"
  /\ OneIs({"d", "dprime"}, <<t1, t2>>) \/ OneIs({"d", "dprime"}, b.products)

\* the light-nucleus channels of dn_xx, dpi_xx and nn_xx with every bit set
AllNucleusChannels == SelectSeq(two_to_two(IncludedReactions), WithNucleus)

\* C25: in the resonance regime, after the 2->2 step, the light-nucleus
\* branches on the list (N d <-> N d', pi d -> N N, pi d <-> pi d',
\* N N -> d pi) are those found with every bit set as soon as one bit of
\* included_2to2 is set, the Elastic bit included, and there is none when
\* included_2to2 is empty.
C25_NucleusChannelsIgnoreBits ==
  ~is_pythia /\ pc \in {"nnbar", "done"} =>
    SelectSeq(process_list, WithNucleus)
      = IF policy.included_2to2 # {} THEN AllNucleusChannels ELSE <<>>

\* C25 witness: a nucleon and a deuteron with the Elastic bit alone, and the
\* N d' branch on the returned list.
C25_Witness ==
  /\ pc = "done"
  /\ is_nucleon(t1) /\ is_deuteron(t2)
  /\ policy.included_2to2 = {"Elastic"}
  /\ SelectSeq(process_list, WithNucleus) # <<>>

\* C25 further witnesses: p p -> d pi+ and a branch of dpi_xx with the
\* Elastic bit alone; no bit at all, and no branch though there are channels.
C25_WitnessNucleons ==
  /\ pc = "done"
  /\ <<t1, t2>> = <<pdg.p, pdg.p>>
  /\ policy.included_2to2 = {"Elastic"}
  /\ SelectSeq(process_list, WithNucleus) # <<>>

C25_WitnessPion ==
  /\ pc = "done"
  /\ is_pion(t1) /\ is_deuteron(t2)
  /\ policy.included_2to2 = {"Elastic"}
  /\ Len(SelectSeq(process_list, WithNucleus)) >= 2

C25_WitnessNoBit ==
  /\ pc = "done"
  /\ ~is_pythia
  /\ policy.included_2to2 = {}
  /\ AllNucleusChannels # <<>>


-----------------------------------------------------------------------------
(* The matrix element of N N -> X *)

MatrixElementReturned == standalone.pc \in {"exchanged", "returned"}

\* the two types are, in either order, of the one and of the other families
PairOf(first, second) ==
  \/ registry[t1].family \in first /\ registry[t2].family \in second
  \/ registry[t2].family \in first /\ registry[t1].family \in second

\* the rows of the table that hold at any 2I
RowsOfAnyIsospin ==
  /\ SameSign
  /\ \/ PairOf({"N"}, {"Delta"})
     \/ PairOf({"N"}, {"Deltastar"})
     \/ PairOf({"N1535", "Nstar"}, {"Delta"})

\* the rows of the table that hold at 2I = 0 and 2I = 2
RowsOfIsospinZeroAndOne(nstars) ==
  /\ SameSign
  /\ standalone.twoI \in {0, 2}
  /\ \/ PairOf({"N"}, nstars)
     \/ PairOf({"Delta"}, {"Delta"})
     \/ PairOf({"Deltastar"}, {"Delta"})

RowOfNstar1535 ==
  SameSign /\ standalone.twoI = 0 /\ PairOf({"N"}, {"N1535"})

RowOfDeuteronPion == PairOf({"d"}, {"pi"})

AboveCutoff ==
  sqrt_s > mass(t1) + mass(t2) + 3 * (width_at_pole(t1) + width_at_pole(t2)) + 3000

\* C26: nn_to_resonance_matrix_element returns 0 above the cutoff
\* m_a + m_b + 3 (Gamma_a + Gamma_b) + 3 GeV, the same value with a and b
\* exchanged, and a value other than 0 only in the rows of the table: N Delta,
\* N Delta*, N* Delta at any 2I; N N* other than N*(1535), Delta Delta and
\* Delta* Delta at 2I in {0, 2}; N N*(1535) at 2I = 0; these for equal
\* antiparticle signs; d pi in either order.
C26_MatrixElementTable ==
  /\ MatrixElementReturned =>
       /\ AboveCutoff => standalone.value = 0
       /\ standalone.value # 0 =>
            \/ RowsOfAnyIsospin
            \/ RowsOfIsospinZeroAndOne({"Nstar"})
            \/ RowOfNstar1535
            \/ RowOfDeuteronPion
  /\ standalone.pc = "returned" => standalone.exchanged = standalone.value

\* C26 with N N*(1535) among the rows of 2I in {0, 2}: it has a value at
\* 2I = 2 as every other N N*.
C26_MatrixElementTableWithNstar1535 ==
  /\ MatrixElementReturned =>
       /\ AboveCutoff => standalone.value = 0
       /\ standalone.value # 0 =>
            \/ RowsOfAnyIsospin
            \/ RowsOfIsospinZeroAndOne({"Nstar", "N1535"})
            \/ RowOfDeuteronPion
  /\ standalone.pc = "returned" => standalone.exchanged = standalone.value

\* C26 witness: N*(1535) and a nucleon of the same sign at 2I = 2, below
\* the cutoff, with a value that is not 0, the same in both orders.
C26_Witness ==
  /\ standalone.pc = "returned"
  /\ is_Nstar1535(t1) /\ is_nucleon(t2) /\ SameSign
  /\ standalone.twoI = 2
  /\ ~AboveCutoff
  /\ standalone.value # 0
  /\ standalone.exchanged = standalone.value

\* C26 further witnesses: a row just above its cutoff and at it; a Delta*
\* with a Delta at 2I = 1; a nucleon and a Delta of opposite signs.
C26_WitnessAboveCutoff ==
  /\ standalone.pc = "returned"
  /\ is_deuteron(t1) /\ is_pion(t2)
  /\ sqrt_s = 5014
  /\ standalone.value = 0

C26_WitnessAtCutoff ==
  /\ standalone.pc = "returned"
  /\ is_deuteron(t1) /\ is_pion(t2)
  /\ sqrt_s = 5013
  /\ standalone.value # 0

C26_WitnessOddIsospin ==
  /\ standalone.pc = "returned"
  /\ is_Deltastar(t1) /\ is_Delta(t2) /\ SameSign
  /\ standalone.twoI = 1
  /\ standalone.value = 0

C26_WitnessOppositeSigns ==
  /\ standalone.pc = "returned"
  /\ is_nucleon(t1) /\ is_Delta(t2) /\ ~SameSign
  /\ ~AboveCutoff
  /\ standalone.value = 0


-----------------------------------------------------------------------------
(* Resonance formation *)

\* two_to_one has run for this call
TwoToOneRan == ~is_pythia /\ pc \in {"two_to_two", "nnbar", "done"}

\* the TwoToOne branches of the list, in list order
FormationBranches == SelectSeq(process_list, LAMBDA b : b.type = "TwoToOne")

\* where a type stands in the enumeration of the registry
RegistryIndex(c) == CHOOSE k \in 1..Len(list_all_seq) : list_all_seq[k] = c

\* the conditions on the product R of a formation branch
MayBeFormed(R) ==
  /\ ~is_stable(R)
  /\ ~(R = t1 /\ ~is_stable(t1))
  /\ ~(R = t2 /\ ~is_stable(t2))
  /\ charge(R) = charge(t1) + charge(t2)
  /\ baryon_number(R) = baryon_number(t1) + baryon_number(t2)
  /\ get_partial_in_width(R, sqrt_s, t1, t2) > 0

\* C27: after two_to_one, every TwoToOne branch has one product R, an
\* unstable type that is not an unstable incoming type, with the charge and
\* the baryon number of the pair, a partial in-width above 0 and a weight
\* above really_small; a type failing one of these has no branch and raises
\* no error; the branches stand in the order of the registry.
C27_FormationBranches ==
  TwoToOneRan =>
    /\ \A k \in 1..Len(FormationBranches) :
         LET b == FormationBranches[k]
         IN  /\ Len(b.products) = 1
             /\ MayBeFormed(b.products[1])
             /\ b.weight > really_small
    /\ \A j, k \in 1..Len(FormationBranches) :
         j < k => RegistryIndex(FormationBranches[j].products[1])
                    < RegistryIndex(FormationBranches[k].products[1])
    /\ \A R \in list_all :
         ~MayBeFormed(R) =>
           /\ \A k \in 1..Len(FormationBranches) : FormationBranches[k].products # <<R>>
           /\ error = NoError

\* C27 witness: a returned list with two formation branches.
C27_Witness ==
  /\ pc = "done"
  /\ Len(FormationBranches) >= 2

\* C27 second witness: a formation branch, and an unstable type of the
\* charge and the baryon number of the pair that has no partial in-width
\* and no branch.
C27_WitnessNoWidth ==
  /\ pc = "done"
  /\ Len(FormationBranches) >= 1
  /\ \E R \in list_all :
       /\ ~is_stable(R)
       /\ charge(R) = charge(t1) + charge(t2)
       /\ baryon_number(R) = baryon_number(t1) + baryon_number(t2)
       /\ ~MayBeFormed(R)

\* C27 further witnesses: a type with a partial in-width above 0 whose
\* weight is not above really_small and has no branch; an unstable incoming
\* type and a formation branch.
C27_WitnessScreened ==
  /\ pc = "done"
  /\ ~is_pythia
  /\ policy.two_to_one_switch
  /\ \E R \in list_all :
       /\ MayBeFormed(R)
       /\ \A k \in 1..Len(FormationBranches) : FormationBranches[k].products # <<R>>

C27_WitnessUnstableIncoming ==
  /\ pc = "done"
  /\ ~is_stable(t1)
  /\ Len(FormationBranches) >= 1

-----------------------------------------------------------------------------
(* C28: the parametrizations of a channel wait for its threshold check *)

StrangeTableRan ==
  /\ TwoToTwoRan
  /\ is_baryon(t1) # is_baryon(t2)
  /\ two_to_two_evaluations(policy.included_2to2).calls # <<>>

\* the parametrization evaluated at position i is one of call k: its thunk
\* calls it, or its thunk multiplies the value evaluated on entry
BelongsTo(E, i, k) ==
  /\ E.events[i].at = "parametrization"
  /\ E.events[i].of = E.calls[k].of
  /\ E.events[i].call \in {0, k}

CheckedBefore(E, i, k) ==
  \E j \in 1..(i - 1) :
    /\ E.events[j].at = "threshold"
    /\ E.events[j].call = k
    /\ E.events[j].passed

\* C28: for every candidate channel of nk_xx, ypi_xx and deltak_xx, no
\* parametrization of the channel is evaluated before the channel's
\* threshold check has passed, hence none at all for a channel that fails it
C28_LazyEvaluationOrder ==
  StrangeTableRan =>
    LET E == two_to_two_evaluations(policy.included_2to2)
    IN  \A k \in 1..Len(E.calls) : \A i \in 1..Len(E.events) :
          BelongsTo(E, i, k) => CheckedBefore(E, i, k)

\* C28, for the parametrizations called inside a thunk: each comes after
\* the passed threshold check of its own channel
C28_ThunksWaitForTheirCheck ==
  StrangeTableRan =>
    LET E == two_to_two_evaluations(policy.included_2to2)
    IN  \A k \in 1..Len(E.calls) : \A i \in 1..Len(E.events) :
          (BelongsTo(E, i, k) /\ E.events[i].call = k) => CheckedBefore(E, i, k)

\* a thunk was called after its check
C28_WitnessThunk ==
  /\ StrangeTableRan
  /\ LET E == two_to_two_evaluations(policy.included_2to2)
     IN  \E i \in 1..Len(E.events) :
           E.events[i].at = "parametrization" /\ E.events[i].call > 0

\* a kaon-Delta channel failed its check after its parametrization had been
\* evaluated on entry
C28_WitnessEvaluatedBelowThreshold ==
  /\ StrangeTableRan
  /\ LET E == two_to_two_evaluations(policy.included_2to2)
     IN  \E j \in 1..Len(E.events) :
           /\ E.events[j].at = "threshold"
           /\ ~E.events[j].passed
           /\ ~E.calls[E.events[j].call].lazy

-----------------------------------------------------------------------------
(* C29: sample_momenta ends, on an energy of [m, 50 T] *)

SampleReturned == standalone.pc = "returned"

AcceptedInInterval ==
  /\ standalone.mass <= standalone.energy
  /\ standalone.energy <= 50 * standalone.temperature
  /\ ~standalone.value_is_nan
  /\ standalone.momentum_radial_sqr
       = standalone.energy * standalone.energy - standalone.mass * standalone.mass
  /\ standalone.value * standalone.value <= standalone.momentum_radial_sqr
  /\ standalone.momentum_radial_sqr < (standalone.value + 1) * (standalone.value + 1)

\* the interval [m, 50 T] has an inside
BelowTheCut ==
  /\ standalone.mass > 0
  /\ standalone.mass < 50 * standalone.temperature

\* C29: for every T > 0 and m >= 0, sample_momenta ends under fair draws and
\* what it returns is sqrt(E^2 - m^2) >= 0 for an accepted energy E of
\* [m, 50 T]
C29_EndsOnAnEnergyOfTheInterval ==
  /\ [](SampleReturned => AcceptedInInterval)
  /\ (standalone.pc = "sample_momenta" ~> standalone.pc \in {"returned", "aborted"})

\* C29, the end of the loop only: under fair draws sample_momenta ends
C29_EndsUnderFairDraws ==
  standalone.pc = "sample_momenta" ~> standalone.pc \in {"returned", "aborted"}

\* C29, for 0 < m < 50 T
C29_EndsBelowTheCut ==
  /\ []((SampleReturned /\ BelowTheCut) => AcceptedInInterval)
  /\ ((standalone.pc = "sample_momenta" /\ BelowTheCut) ~> SampleReturned)

\* C29, what is returned only: an energy of the interval, for every mass
C29_AcceptedInInterval == SampleReturned => AcceptedInInterval

\* a mass below the cut, an energy accepted after a rejected one
C29_WitnessBelowTheCut ==
  /\ SampleReturned
  /\ BelowTheCut
  /\ standalone.iterations >= 2
  /\ standalone.energy > standalone.mass

\* a mass above the cut: the loop goes on, its energy below the mass
C29_WitnessAboveTheCut ==
  /\ standalone.pc = "do"
  /\ standalone.mass > 50 * standalone.temperature
  /\ standalone.iterations >= 2
  /\ standalone.momentum_radial_sqr < 0

\* a mass above the cut, and the loop was left on the draw of the mass itself
C29_WitnessReturnedAboveTheCut ==
  /\ SampleReturned
  /\ standalone.mass > 50 * standalone.temperature

\* mass 0: returned on the first energy drawn
C29_WitnessMassless ==
  /\ SampleReturned
  /\ standalone.mass = 0

-----------------------------------------------------------------------------
(* C30: the bisection of mus_net_strangeness0 and its error *)

MusLeft == standalone.pc \in {"returned", "thrown"}

\* the last turn made has brought |rho_s| within the tolerance
MusConverged ==
  /\ standalone.iteration >= 1
  /\ Abs(standalone.rhos) <= standalone.tolerance

\* C30: at most 30 turns; the error is raised exactly when |rho_s| is still
\* above the tolerance after the 30th; a turn k <= 30 that brings |rho_s|
\* within the tolerance returns the mus of that turn, without error
C30_ThrowsExactlyWithoutConvergence ==
  /\ standalone.iteration <= max_iteration
  /\ standalone.pc = "thrown"
       <=> (standalone.iteration = max_iteration /\ ~MusConverged)
  /\ MusConverged => standalone.pc = "returned" /\ standalone.value = standalone.mus

\* C30, as the code has it: the error is raised exactly when the loop is
\* left at the 30th turn, converged or not, and a turn k < 30 that brings
\* |rho_s| within the tolerance returns the mus of that turn
C30_ThrowsAtTheLastTurn ==
  /\ standalone.iteration <= max_iteration
  /\ standalone.pc = "thrown" <=> standalone.iteration = max_iteration
  /\ (MusConverged /\ standalone.iteration < max_iteration)
       => standalone.pc = "returned" /\ standalone.value = standalone.mus
  /\ standalone.pc = "returned" => MusConverged

\* the 30th turn converged, and the error was raised
C30_WitnessThrownConverged ==
  /\ standalone.pc = "thrown"
  /\ MusConverged

\* the budget was used up without convergence
C30_WitnessThrown ==
  /\ standalone.pc = "thrown"
  /\ ~MusConverged

\* returned at the 29th turn
C30_WitnessReturnedLate ==
  /\ standalone.pc = "returned"
  /\ standalone.iteration = max_iteration - 1

=============================================================================
